---- MODULE Spec2Model ----
(***************************************************************************)
(* Model of the ODIN sync engine: the persistence upsert layer (db.ts,     *)
(* schema.sql), the sync scheduler (scheduler.ts), the adapter pagination  *)
(* and retry engine (base-adapter.ts), the ACLED token state machine       *)
(* (acled.ts and the AcledAdapter carried in cia-factbook.ts), the acled   *)
(* runner with its token write-back and fetch window, and the settings     *)
(* handlers of ipc-handlers with the periodic timer.                       *)
(***************************************************************************)
EXTENDS Integers, Sequences, FiniteSets, TLC

\* SQL NULL / JavaScript null.  The empty string is a different value.
NULL == "<NULL>"

(***************************************************************************)
(* Bounds of the model.                                                    *)
(***************************************************************************)
\* longest batch handed to one upsert call in SpecUpsert
MaxBatch == 2
\* number of sync requests (timer ticks and sync:start calls) in one behaviour
MaxCalls == 2
\* how many of the built-in adapters, in registration order, initAdapters
\* registers
NumAdapters == 4
\* records in a full page of a source: stands for the page size the adapter
\* asks for (AcledAdapter.PAGE_LIMIT = 5000)
PAGE_LIMIT == 2
\* pages a source serves for one fetchAll
MaxPages == 2
\* records a source serves in one adapter run
MaxRecords == 2
\* how many of the tracked World Bank indicator codes are fetched
NumIndicators == 2
\* calls of AcledAdapter.fetchPage in SpecToken
MaxFetches == 2

VARIABLES
  countries,               \* table countries: sequence of rows, rowid order
  conflict_events,         \* table conflict_events
  arms_transfers,          \* table arms_transfers
  military_installations,  \* table military_installations
  wb_indicators,           \* table wb_indicators
  lastOp,                  \* the last batch upsert applied, and what it returned
  running,                 \* SyncScheduler.running
  adapters,                \* SyncScheduler.adapters: registered names, in Map order
  intervalHandle,          \* SyncScheduler.intervalHandle is armed
  sync_log,                \* table sync_log: sequence of rows, AUTOINCREMENT id order
  nextLogId,               \* the id AUTOINCREMENT gives the next sync_log row
  events,                  \* 'sync:progress' events delivered to the renderer, in order
  job,                     \* the adapter runner in progress: page cursor, attempt, records
  build,                   \* which text of AcledAdapter is compiled in
  now,                     \* the clock, in seconds
  tokens,                  \* AcledAdapter.tokens: the pair held, if any
  auth,                    \* where the fetchPage in progress stands
  issued,                  \* token answers given by the endpoint so far
  fetches,                 \* calls of fetchPage so far
  last,                    \* the latest fetchPage: clock, pair held, endpoint calls, bearer
  calls,                   \* the sync requests made so far: one record per invocation
  sendFails,               \* webContents.send raises (the renderer cannot take a push)
  settings,                \* table settings: key -> JSON text of the value
  intervalMs,              \* the period the timer behind intervalHandle was armed with
  lastSet,                 \* the latest settings:set request, and how it ended
  loop,                    \* a fetchAll call of one adapter instance: cursor, records, pages
  retrier,                 \* a withRetry call: attempt, delays waited, how it ended
  gate                     \* the rate gate of one adapter instance, with its clock

storeVars == <<countries, conflict_events, arms_transfers,
               military_installations, wb_indicators>>

cfgVars == <<settings, intervalMs, lastSet>>

engineVars == <<loop, retrier, gate>>

(***************************************************************************)
(* Sequence helpers.                                                       *)
(***************************************************************************)
Range(s) == {s[i] : i \in DOMAIN s}

SeqsUpTo(S, n) == UNION {[1..k -> S] : k \in 0..n}

(***************************************************************************)
(* schema.sql: keys and constraints of the five record tables.             *)
(* PRAGMA foreign_keys = ON is set in the DatabaseService constructor.     *)
(* Record identifiers produced by the adapters are non-null strings, so    *)
(* the primary-key columns are never NULL here.                            *)
(***************************************************************************)
\* PRIMARY KEY of each table (as a tuple), by table name
KeyOf(tbl, r) ==
  CASE tbl = "countries" -> <<r.iso3>>
    [] tbl = "wb_indicators" -> <<r.iso3, r.indicator_code, r.year>>
    [] OTHER -> <<r.id>>

\* SELECT 1 FROM countries WHERE iso3 = x  (x = NULL never matches)
CountryExists(C, x) == x /= NULL /\ \E i \in DOMAIN C : C[i].iso3 = x

\* countries: iso2 / name are NOT NULL (one column stands for both)
CountryRowOk(r) == r.name /= NULL

\* conflict_events: iso3 NOT NULL, no FOREIGN KEY on iso3
ConflictRowOk(r) == r.iso3 /= NULL

\* arms_transfers: supplier_iso3, recipient_iso3 NOT NULL REFERENCES countries
ArmsRowOk(C, r) == CountryExists(C, r.supplier_iso3) /\ CountryExists(C, r.recipient_iso3)

\* military_installations: iso3 NOT NULL REFERENCES countries
InstallationRowOk(C, r) == CountryExists(C, r.iso3)

(***************************************************************************)
(* INSERT OR REPLACE: the row with the same primary key is deleted and the *)
(* new row is inserted (it gets a new rowid, so it goes last).             *)
(***************************************************************************)
InsertNoReplaceMut(tbl, T, r) == Append(T, r)

InsertOrReplace(tbl, T, r) ==
  Append(SelectSeq(T, LAMBDA x : KeyOf(tbl, x) /= KeyOf(tbl, r)), r)

(***************************************************************************)
(* db.ts upsert methods.  Each returns [table, count, threw]: a statement  *)
(* that raises inside db.transaction() and is not caught rolls the whole   *)
(* transaction back and the exception leaves the method.                   *)
(***************************************************************************)
RECURSIVE UpsertCountriesLoop(_, _, _, _)
UpsertCountriesLoop(T0, T, batch, count) ==
  IF batch = <<>> THEN [table |-> T, count |-> count, threw |-> FALSE]
  ELSE IF ~CountryRowOk(Head(batch))
       THEN [table |-> T0, count |-> 0, threw |-> TRUE]
       ELSE UpsertCountriesLoop(T0, InsertOrReplace("countries", T, Head(batch)),
                                Tail(batch), count + 1)

upsertCountries(T, batch) == UpsertCountriesLoop(T, T, batch, 0)

RECURSIVE UpsertConflictsLoop(_, _, _)
UpsertConflictsLoop(T, batch, count) ==
  IF batch = <<>> THEN [table |-> T, count |-> count, threw |-> FALSE]
  ELSE IF ~ConflictRowOk(Head(batch))
       THEN UpsertConflictsLoop(T, Tail(batch), count)   \* caught, row skipped
       ELSE UpsertConflictsLoop(InsertOrReplace("conflict_events", T, Head(batch)),
                                Tail(batch), count + 1)

\* upsertConflicts without the try/catch around stmt.run
RECURSIVE UpsertConflictsNoCatchLoop(_, _, _, _)
UpsertConflictsNoCatchLoop(T0, T, batch, count) ==
  IF batch = <<>> THEN [table |-> T, count |-> count, threw |-> FALSE]
  ELSE IF ~ConflictRowOk(Head(batch))
       THEN [table |-> T0, count |-> 0, threw |-> TRUE]
       ELSE UpsertConflictsNoCatchLoop(T0, InsertOrReplace("conflict_events", T, Head(batch)),
                                       Tail(batch), count + 1)

UpsertConflictsNoCatchMut(T, batch) == UpsertConflictsNoCatchLoop(T, T, batch, 0)

upsertConflicts(T, batch) == UpsertConflictsLoop(T, batch, 0)

RECURSIVE UpsertArmsLoop(_, _, _, _, _)
UpsertArmsLoop(C, T0, T, batch, count) ==
  IF batch = <<>> THEN [table |-> T, count |-> count, threw |-> FALSE]
  ELSE IF ~ArmsRowOk(C, Head(batch))
       THEN [table |-> T0, count |-> 0, threw |-> TRUE]
       ELSE UpsertArmsLoop(C, T0, InsertOrReplace("arms_transfers", T, Head(batch)),
                           Tail(batch), count + 1)

upsertArmsTransfers(C, T, batch) == UpsertArmsLoop(C, T, T, batch, 0)

RECURSIVE UpsertInstallationsLoop(_, _, _, _, _)
UpsertInstallationsLoop(C, T0, T, batch, count) ==
  IF batch = <<>> THEN [table |-> T, count |-> count, threw |-> FALSE]
  ELSE IF ~InstallationRowOk(C, Head(batch))
       THEN [table |-> T0, count |-> 0, threw |-> TRUE]
       ELSE UpsertInstallationsLoop(C, T0,
                                    InsertOrReplace("military_installations", T, Head(batch)),
                                    Tail(batch), count + 1)

upsertInstallations(C, T, batch) == UpsertInstallationsLoop(C, T, T, batch, 0)

\* INSERT OR REPLACE ... SELECT ... WHERE EXISTS (countries row); count only
\* when info.changes > 0
RECURSIVE UpsertIndicatorsLoop(_, _, _, _)
UpsertIndicatorsLoop(C, T, batch, count) ==
  IF batch = <<>> THEN [table |-> T, count |-> count, threw |-> FALSE]
  ELSE IF ~CountryExists(C, Head(batch).iso3)
       THEN UpsertIndicatorsLoop(C, T, Tail(batch), count)
       ELSE UpsertIndicatorsLoop(C, InsertOrReplace("wb_indicators", T, Head(batch)),
                                 Tail(batch), count + 1)

upsertIndicators(C, T, batch) == UpsertIndicatorsLoop(C, T, batch, 0)

(***************************************************************************)
(* db.ts: the sync_log table.  The field `writes` is not a column: it      *)
(* counts the UPDATEs that gave the row a terminal status.                 *)
(***************************************************************************)
\* no batch upsert has been applied directly
NoOp == [tbl |-> "none", batch |-> <<>>, before |-> <<>>, count |-> 0,
         threw |-> FALSE, n |-> 0, firstCount |-> 0, firstThrew |-> FALSE]

schedVars == <<running, adapters, intervalHandle, sync_log, nextLogId, events,
               calls, sendFails, job>>

tokenVars == <<build, now, tokens, auth, issued, fetches, last>>

\* the token pair of the acled adapter is not followed
TokensNotFollowed ==
  /\ build = "cia-factbook.ts"
  /\ now = 0
  /\ tokens = [present |-> FALSE, accessToken |-> <<>>, refreshToken |-> <<>>,
               tokenExpiry |-> 0, refreshTokenExpiry |-> 0]
  /\ auth = "idle"
  /\ issued = 0
  /\ fetches = 0
  /\ last = [at |-> 0, held |-> tokens, calls |-> <<>>, result |-> "none",
             bearer |-> <<>>]

vars == <<storeVars, lastOp, schedVars, tokenVars, cfgVars, engineVars>>

\* datetime('now') has a resolution of one second: the clock reading itself.
\* completed_at of a row that is still `running` is NULL and is never read.
logSyncStart(log, id, adapter) ==
  Append(log, [id |-> id, adapter |-> adapter, status |-> "running",
               records_fetched |-> 0, records_upserted |-> 0,
               error_message |-> NULL, writes |-> 0,
               started_at |-> now, completed_at |-> NULL])

logSyncComplete(log, id, fetched, upserted) ==
  [i \in DOMAIN log |->
     IF log[i].id = id
     THEN [log[i] EXCEPT !.status = "completed", !.records_fetched = fetched,
                         !.records_upserted = upserted, !.writes = @ + 1,
                         !.completed_at = now]
     ELSE log[i]]

logSyncError(log, id, message) ==
  [i \in DOMAIN log |->
     IF log[i].id = id
     THEN [log[i] EXCEPT !.status = "error", !.error_message = message,
                         !.writes = @ + 1, !.completed_at = now]
     ELSE log[i]]

\* getSyncStatus: the adapters it reports on, in its order
STATUS_ADAPTERS ==
  <<"acled", "worldbank", "overpass", "cia-factbook", "sipri", "natural-earth", "ucdp">>

\* lastEntry.status === 'running' ? 'syncing' : lastEntry.status as
\* SyncStatus['status']: the cast leaves the text of the column as it is
StatusOfRow(status) == IF status = "running" THEN "syncing" ELSE status

\* getSyncStatus, the element for one adapter: SELECT * FROM sync_log WHERE
\* adapter = ? ORDER BY started_at DESC LIMIT 1, each row with the latest
\* started_at being one the query can return, and the SyncStatus built from
\* it.  completed_at is set exactly in the rows that are not `running`.
getSyncStatus(log, adapter) ==
  LET mine == {i \in DOMAIN log : log[i].adapter = adapter}
      first == {x \in mine : \A y \in mine : log[y].started_at <= log[x].started_at}
  IN IF mine = {}
     THEN {[adapter |-> adapter, lastSync |-> <<>>, status |-> "idle",
            recordCount |-> 0, errorMessage |-> NULL, entry |-> 0]}
     ELSE {[adapter |-> log[i].adapter,
            lastSync |-> IF log[i].status = "running" THEN <<log[i].started_at>>
                         ELSE <<log[i].completed_at>>,
            status |-> StatusOfRow(log[i].status),
            recordCount |-> log[i].records_upserted,
            errorMessage |-> log[i].error_message,
            entry |-> log[i].id] : i \in first}

LogRow(log, id) == log[CHOOSE i \in DOMAIN log : log[i].id = id]

\* SELECT completed_at ... WHERE adapter = ? AND status = 'completed'
\* ORDER BY started_at DESC LIMIT 1: the values the call can return, <<>>
\* for null.  SQL leaves the order of rows with equal started_at open, so
\* each completed row with the latest started_at can be the one returned.
getLastSuccessfulSync(log, adapter) ==
  LET done == {i \in DOMAIN log : log[i].adapter = adapter /\ log[i].status = "completed"}
      first == {x \in done : \A y \in done : log[y].started_at <= log[x].started_at}
  IN IF done = {} THEN {<<>>}
     ELSE {<<log[i].completed_at>> : i \in first}

(***************************************************************************)
(* db.ts: the settings table, one row per key with the JSON text of the    *)
(* value.  The token strings are tuples here, the empty string '' of a     *)
(* token field is <<>>, and the two expiries are in seconds like the       *)
(* clock.                                                                  *)
(***************************************************************************)
DEFAULT_SETTINGS ==
  [acledEmail |-> "", acledPassword |-> "",
   acledAccessToken |-> <<>>, acledRefreshToken |-> <<>>,
   acledTokenExpiry |-> 0, acledRefreshTokenExpiry |-> 0,
   syncIntervalMinutes |-> 360,
   mapDefaultCenter |-> <<20, 0>>, mapDefaultZoom |-> 3,
   displayTimezone |-> "UTC"]

\* JSON.stringify / JSON.parse on the values the settings hold
JSONstringify(v) == <<"json", v>>

JSONparse(text) == text[2]

\* initSchema on an empty settings table
SeedSettings == [k \in DOMAIN DEFAULT_SETTINGS |-> JSONstringify(DEFAULT_SETTINGS[k])]

getSettings(tbl) ==
  [k \in DOMAIN DEFAULT_SETTINGS \cup DOMAIN tbl |->
     IF k \in DOMAIN tbl THEN JSONparse(tbl[k]) ELSE DEFAULT_SETTINGS[k]]

\* INSERT ... ON CONFLICT(key) DO UPDATE for every entry of partial
updateSettings(tbl, partial) ==
  [k \in DOMAIN tbl \cup DOMAIN partial |->
     IF k \in DOMAIN partial THEN JSONstringify(partial[k]) ELSE tbl[k]]

\* no settings:set request has been made
NoSet == [made |-> FALSE, shape |-> "none", payload |-> <<>>, before |-> <<>>,
          ok |-> FALSE]

\* the user has entered the ACLED account in the Settings view
ACLED_ACCOUNT == [acledEmail |-> "user@example.org", acledPassword |-> "secret"]

\* the settings are not followed: the account is configured, no
\* settings:set request is made
SettingsNotFollowed ==
  /\ settings = updateSettings(SeedSettings, ACLED_ACCOUNT)
  /\ lastSet = NoSet

(***************************************************************************)
(* base-adapter.ts: the states in which no call of fetchAll, of withRetry  *)
(* or of rateLimitedRequest has been made.                                 *)
(***************************************************************************)
NoLoop == [phase |-> "idle", initial |-> <<>>, params |-> <<>>, hasMore |-> TRUE,
           results |-> <<>>, attempt |-> 0, requested |-> <<>>, pages |-> <<>>,
           inFlight |-> 0, returned |-> <<>>]

NoRetry == [phase |-> "idle", maxRetries |-> 0, baseDelayMs |-> 0, attempt |-> 0,
            calls |-> 0, delays |-> <<>>, errs |-> <<>>, value |-> NULL,
            err |-> NULL]

NoGate == [phase |-> "idle", rateLimitMs |-> 0, clock |-> 0, lastRequestTime |-> 0,
           wakeAt |-> 0, issuedAt |-> <<>>, calledAt |-> <<>>, waited |-> <<>>]

\* the pagination engine is not followed
EngineNotFollowed ==
  /\ loop = NoLoop
  /\ retrier = NoRetry
  /\ gate = NoGate

(***************************************************************************)
(* scheduler.ts.  JavaScript runs one task at a time: everything a method  *)
(* does between two awaits of real I/O is one step.  The operators below   *)
(* work on a record w of the scheduler's state and the call being served:  *)
(* [running, adapters, log, nextId, events, call].                         *)
(***************************************************************************)
BuiltIn == <<"natural-earth", "acled", "ucdp", "worldbank", "overpass",
             "cia-factbook", "sipri">>

\* the names initAdapters registers (Map.set keeps the insertion order)
initAdapters == SubSeq(BuiltIn, 1, NumAdapters)

Has(reg, name) == \E i \in DOMAIN reg : reg[i] = name

\* sync:start without its check of the name: any string is let through
KnownAdaptersAnyMut == {"acled", "worldbank", "overpass", "cia-factbook", "sipri",
                        "natural-earth", "bogus"}

\* ipc-handlers: names sync:start lets through
KNOWN_ADAPTERS == {"acled", "worldbank", "overpass", "cia-factbook", "sipri",
                   "natural-earth"}

\* the natural-earth runner has no await: it settles within the step that
\* starts it, with the bundled country list
IsSynchronous(name) == name = "natural-earth"

NaturalEarthResult == [threw |-> FALSE, fetched |-> 2, upserted |-> 2, message |-> NULL]

\* what a runner's promise settles with, as the scheduler sees it
RunOutcomes ==
  {[threw |-> FALSE, fetched |-> 2, upserted |-> 1, message |-> NULL],
   [threw |-> TRUE, fetched |-> 0, upserted |-> 0, message |-> "adapter error"]}

\* no adapter runner is in progress
NoJob == [adapter |-> NULL, page |-> 0, attempt |-> 0, results |-> <<>>,
          ind |-> 0, all |-> <<>>, exhausted |-> FALSE]

NoCall == [kind |-> "none", via |-> "none", st |-> "idle", accepted |-> FALSE,
           name |-> NULL, idx |-> 0, logId |-> 0, runs |-> <<>>]

\* emitSyncProgress: webContents.send to every open window
emitSyncProgress(w, status) ==
  IF sendFails THEN [w |-> w, threw |-> TRUE]
  ELSE [w |-> [w EXCEPT !.events = Append(@, status)], threw |-> FALSE]

\* the acled runner: both credentials are set (process.env holds none)
AcledConfigured(s) == s["acledEmail"] /= "" /\ s["acledPassword"] /= ""

\* TWO_YEARS_MS, in seconds
TwoYearsSeconds == 2 * 365 * 24 * 60 * 60

\* toISOString().slice(0, 10): the day an instant lies in
DateOf(t) == t \div 86400

\* fetchAllEvents: the event_date the pages are asked for (event_date_where
\* is '>'): the watermark as it is, or the day two years before now
fetchAllEvents(sinceDate, t) ==
  IF sinceDate = <<>> THEN <<"date", DateOf(t - TwoYearsSeconds)>>
  ELSE <<"datetime", sinceDate[1]>>

\* the fetch windows the acled runner can ask for when it is started with
\* log: none when the credentials check throws
AcledWindow(log) ==
  IF AcledConfigured(getSettings(settings))
  THEN {fetchAllEvents(sinceDate, now) : sinceDate \in getLastSuccessfulSync(log, "acled")}
  ELSE {}

\* syncAdapterInternal up to the call of adapter.run
BeginAdapter(w, name) ==
  LET w1 == [w EXCEPT !.log = logSyncStart(@, w.nextId, name),
                      !.nextId = @ + 1,
                      !.call.name = name,
                      !.call.logId = w.nextId]
      e == emitSyncProgress(w1, [adapter |-> name, status |-> "syncing",
                                 recordCount |-> 0, errorMessage |-> NULL])
  IN IF e.threw THEN e
     ELSE [w |-> [e.w EXCEPT !.call.runs =
                     Append(@, [name |-> name, logId |-> w.nextId,
                                settled |-> FALSE, threw |-> FALSE,
                                applied |-> FALSE, batch |-> <<>>,
                                exhausted |-> FALSE, stored |-> 0,
                                since |-> IF name = "acled" THEN AcledWindow(w1.log)
                                          ELSE {},
                                loginFails |-> 0, obtained |-> FALSE])],
           threw |-> FALSE]

MarkSettled(w, threw) ==
  [w EXCEPT !.call.runs[Len(w.call.runs)] = [@ EXCEPT !.settled = TRUE, !.threw = threw]]

\* syncAdapterInternal without its catch block: the error leaves the method
RethrowMut(w, message) == [w |-> w, threw |-> TRUE]

\* the catch block of syncAdapterInternal
CatchRunError(w, message) ==
  LET w1 == [w EXCEPT !.log = logSyncError(@, w.call.logId, message)]
  IN emitSyncProgress(w1, [adapter |-> w.call.name, status |-> "error",
                           recordCount |-> 0, errorMessage |-> message])

\* the try block with the `idle` event carrying the number of records
\* fetched instead of the number upserted
OnRunResolvedFetchedMut(w, result) ==
  LET w1 == [w EXCEPT !.log = logSyncComplete(@, w.call.logId, result.fetched,
                                              result.upserted)]
      e == emitSyncProgress(w1, [adapter |-> w.call.name, status |-> "idle",
                                 recordCount |-> result.fetched,
                                 errorMessage |-> NULL])
  IN IF e.threw THEN CatchRunError(e.w, "send failed") ELSE e

\* the try block of syncAdapterInternal after adapter.run has resolved
OnRunResolved(w, result) ==
  LET w1 == [w EXCEPT !.log = logSyncComplete(@, w.call.logId, result.fetched,
                                              result.upserted)]
      e == emitSyncProgress(w1, [adapter |-> w.call.name, status |-> "idle",
                                 recordCount |-> result.upserted,
                                 errorMessage |-> NULL])
  IN IF e.threw THEN CatchRunError(e.w, "send failed") ELSE e

\* syncAdapterInternal from the moment adapter.run settles
SettleAdapter(w, out) ==
  LET w0 == MarkSettled(w, out.threw)
  IN IF out.threw THEN CatchRunError(w0, out.message) ELSE OnRunResolved(w0, out)

\* syncAdapter(name) has finished (it has no finally: running is not touched)
EndSyncAdapter(w, threw) ==
  [w EXCEPT !.call.st = IF threw THEN "threw" ELSE "returned"]

\* syncAll with the reset of the flag after the loop instead of in a finally
EndSyncAllNoFinallyMut(w, threw) ==
  [w EXCEPT !.running = IF threw THEN @ ELSE FALSE,
            !.call.st = IF threw THEN "threw" ELSE "returned"]

\* the finally block of syncAll
EndSyncAll(w, threw) ==
  [w EXCEPT !.running = FALSE, !.call.st = IF threw THEN "threw" ELSE "returned"]

\* the loop of syncAll from registry position idx, up to the first adapter
\* whose promise is pending, the end of the loop or an exception
RECURSIVE SyncAllFrom(_, _)
SyncAllFrom(w, idx) ==
  IF idx > Len(w.adapters) THEN EndSyncAll(w, FALSE)
  ELSE LET b == BeginAdapter([w EXCEPT !.call.idx = idx], w.adapters[idx]) IN
       IF b.threw THEN EndSyncAll(b.w, TRUE)
       ELSE IF IsSynchronous(w.adapters[idx])
            THEN LET t == SettleAdapter(b.w, NaturalEarthResult) IN
                 IF t.threw THEN EndSyncAll(t.w, TRUE)
                 ELSE SyncAllFrom(t.w, idx + 1)
            ELSE [b.w EXCEPT !.call.st = "pending"]

\* syncAll() without its check of the in-progress flag
SyncAllNoGuardMut(w) ==
  SyncAllFrom([w EXCEPT !.running = TRUE, !.adapters = initAdapters,
                        !.call.accepted = TRUE], 1)

\* syncAll()
syncAll(w) ==
  IF w.running THEN [w EXCEPT !.call.st = "returned"]
  ELSE SyncAllFrom([w EXCEPT !.running = TRUE, !.adapters = initAdapters,
                             !.call.accepted = TRUE], 1)

\* syncAdapter(name)
syncAdapter(w, name) ==
  IF w.running THEN [w EXCEPT !.call.st = "returned"]
  ELSE LET reg == IF Has(w.adapters, name) THEN w.adapters ELSE initAdapters
           w1 == [w EXCEPT !.adapters = reg]
       IN IF ~Has(reg, name) THEN [w1 EXCEPT !.call.st = "returned"]
          ELSE LET b == BeginAdapter([w1 EXCEPT !.call.accepted = TRUE], name) IN
               IF b.threw THEN EndSyncAdapter(b.w, TRUE)
               ELSE IF IsSynchronous(name)
                    THEN LET t == SettleAdapter(b.w, NaturalEarthResult) IN
                         EndSyncAdapter(t.w, t.threw)
                    ELSE [b.w EXCEPT !.call.st = "pending"]

\* the adapter promise call.name of a pending call has settled with out
Resume(w, out) ==
  LET t == SettleAdapter(w, out) IN
  IF w.call.kind = "syncAll"
  THEN IF t.threw THEN EndSyncAll(t.w, TRUE) ELSE SyncAllFrom(t.w, w.call.idx + 1)
  ELSE EndSyncAdapter(t.w, t.threw)

World(c) == [running |-> running, adapters |-> adapters, log |-> sync_log,
             nextId |-> nextLogId, events |-> events, call |-> calls[c]]

Commit(c, w) ==
  /\ running' = w.running
  /\ adapters' = w.adapters
  /\ sync_log' = w.log
  /\ nextLogId' = w.nextId
  /\ events' = w.events
  /\ calls' = [calls EXCEPT ![c] = w.call]

\* calls are numbered in the order they are made
Fresh(c) ==
  /\ calls[c].kind = "none"
  /\ \A d \in 1..(c - 1) : calls[d].kind /= "none"

\* what the renderer may pass to sync:start: nothing, a registered name or
\* some other string
IpcArgs == {NULL, "bogus"} \cup Range(initAdapters)

\* ipcMain.handle('sync:start'), as call number c
HandleSyncStart(c, arg) ==
  /\ Fresh(c)
  /\ IF arg /= NULL /\ arg \notin KNOWN_ADAPTERS
     THEN /\ calls' = [calls EXCEPT ![c] = [NoCall EXCEPT !.kind = "rejected",
                                             !.via = "ipc", !.st = "threw",
                                             !.name = arg]]
          /\ UNCHANGED <<running, adapters, sync_log, nextLogId, events>>
     ELSE IF arg /= NULL
          THEN Commit(c, syncAdapter([World(c) EXCEPT !.call.kind = "syncAdapter",
                                                      !.call.via = "ipc",
                                                      !.call.name = arg], arg))
          ELSE Commit(c, syncAll([World(c) EXCEPT !.call.kind = "syncAll",
                                                  !.call.via = "ipc"]))

\* the renderer invokes sync:start
IpcSyncStart(c, arg) ==
  /\ HandleSyncStart(c, arg)
  /\ UNCHANGED <<intervalHandle, sendFails, storeVars, lastOp, job, tokenVars, cfgVars, engineVars>>

\* the setInterval callback armed by start()
TimerFires(c) ==
  /\ Fresh(c)
  /\ intervalHandle
  /\ Commit(c, syncAll([World(c) EXCEPT !.call.kind = "syncAll", !.call.via = "timer"]))
  /\ UNCHANGED <<intervalHandle, sendFails, storeVars, lastOp, job, tokenVars, cfgVars, engineVars>>

\* the promise of adapter.run(db) settles
RunSettles(c, out) ==
  /\ calls[c].st = "pending"
  /\ Commit(c, Resume(World(c), out))
  /\ UNCHANGED <<intervalHandle, sendFails, storeVars, lastOp, job, tokenVars, cfgVars, engineVars>>

\* the renderer stops taking pushes (webContents.send raises from now on)
RendererFails ==
  /\ ~sendFails
  /\ sendFails' = TRUE
  /\ UNCHANGED <<running, adapters, intervalHandle, sync_log, nextLogId, events,
                 calls, storeVars, lastOp, job, tokenVars, cfgVars, engineVars>>

\* clearSyncLog(): DELETE FROM sync_log.  The renderer can ask for it at any
\* time, also while a run waits for its adapter; AUTOINCREMENT does not give
\* the ids of deleted rows again.
clearSyncLog ==
  /\ sync_log' = <<>>
  /\ UNCHANGED <<running, adapters, intervalHandle, nextLogId, events, calls, sendFails,
                 storeVars, lastOp, job, tokenVars, cfgVars, engineVars>>

\* start(intervalMinutes): the period setInterval is given
start(intervalMinutes) == intervalMinutes * 60 * 1000

SchedulerConstructed ==
  /\ running = FALSE
  /\ adapters = <<>>
  /\ intervalHandle = FALSE
  /\ sync_log = <<>>
  /\ nextLogId = 1
  /\ events = <<>>
  /\ calls = [c \in 1..MaxCalls |-> NoCall]
  /\ sendFails = FALSE
  /\ job = NoJob

\* the store the application starts the scheduler with: countries seeded
\* from the bundled list, nothing synced yet
SeededStore ==
  /\ countries = <<[iso3 |-> "AAA", name |-> "Aaa"], [iso3 |-> "BBB", name |-> "bbb"]>>
  /\ conflict_events = <<>>
  /\ arms_transfers = <<>>
  /\ military_installations = <<>>
  /\ wb_indicators = <<>>

\* app.whenReady: the scheduler is constructed and, when the saved interval
\* is positive, start(interval) registers the adapters and arms the timer
Init ==
  /\ SeededStore
  /\ lastOp = NoOp
  /\ running = FALSE
  /\ intervalHandle \in BOOLEAN
  /\ adapters = IF intervalHandle THEN initAdapters ELSE <<>>
  /\ sync_log = <<>>
  /\ nextLogId = 1
  /\ events = <<>>
  /\ calls = [c \in 1..MaxCalls |-> NoCall]
  /\ sendFails = FALSE
  /\ job = NoJob
  /\ TokensNotFollowed
  /\ SettingsNotFollowed
  /\ intervalMs = IF intervalHandle
                  THEN start(getSettings(settings)["syncIntervalMinutes"])
                  ELSE 0
  /\ EngineNotFollowed

Next ==
  \/ \E c \in 1..MaxCalls : \E arg \in IpcArgs : IpcSyncStart(c, arg)
  \/ \E c \in 1..MaxCalls : TimerFires(c)
  \/ \E c \in 1..MaxCalls : \E out \in RunOutcomes : RunSettles(c, out)

Spec == Init /\ [][Next]_vars

SpecEmitFault == Init /\ [][Next \/ RendererFails]_vars

\* the scheduler with a renderer that may clear the log at any time
SpecClear == Init /\ [][Next \/ clearSyncLog]_vars

(***************************************************************************)
(* The adapter runners registered by initAdapters, on top of               *)
(* BaseApiAdapter.fetchAll and withRetry: one step per HTTP exchange.      *)
(* Followed for the paginated adapters that sync:start lets through:       *)
(* acled, worldbank and overpass.  The settings hold ACLED credentials     *)
(* and an access token that is valid for the whole run, so fetchPage of    *)
(* acled goes straight to the request.                                     *)
(***************************************************************************)
\* default of the parameter maxRetries of withRetry
maxRetries == 3

\* the codes fetchAllIndicators iterates over
INDICATOR_CODES ==
  SubSeq(<<"MS.MIL.XPND.GD.ZS", "MS.MIL.XPND.CD", "MS.MIL.TOTL.P1", "SP.POP.TOTL",
           "NY.GDP.MKTP.CD", "SP.DYN.LE00.IN">>, 1, NumIndicators)

\* raw records as the sources send them
ACLEDRawRecord == [event_id_cnty : {"a1", "a2"}, iso3 : {NULL, "AAA", "XKX"}]
WBRawRecord(code) == [countryiso3code : {"AAA", "WLD"},
                      indicator : [id : {code}, value : {"name"}],
                      date : {"2020"}, value : {1}]
OSMElement == [type : {"node"}, id : {1, 2}]

\* parseInt(s, 10) on the dates in use
parseInt(s) == CASE s = "2020" -> 2020 [] s = "2021" -> 2021

\* `osm_${raw.type}_${raw.id}`
OsmId(type, n) ==
  CASE type = "node" /\ n = 1 -> "osm_node_1" [] type = "node" /\ n = 2 -> "osm_node_2"

\* normalize of each adapter, on the columns the tables constrain
normalize(adapter, raw) ==
  CASE adapter = "acled" -> [id |-> raw.event_id_cnty, iso3 |-> raw.iso3]
    [] adapter = "worldbank" ->
         [iso3 |-> raw.countryiso3code, indicator_code |-> raw.indicator.id,
          year |-> parseInt(raw.date), value |-> raw.value]
    [] adapter = "overpass" -> [id |-> OsmId(raw.type, raw.id), iso3 |-> ""]

NormalizeAll(adapter, data) == [i \in DOMAIN data |-> normalize(adapter, data[i])]

\* fetchAllRegions: keep the first record of each id
RECURSIVE Dedupe(_, _)
Dedupe(recs, seen) ==
  IF recs = <<>> THEN <<>>
  ELSE IF Head(recs).id \in seen THEN Dedupe(Tail(recs), seen)
       ELSE <<Head(recs)>> \o Dedupe(Tail(recs), seen \cup {Head(recs).id})

\* the runner of call has just been started
StartJob(call) ==
  IF call.st = "pending"
  THEN [NoJob EXCEPT !.adapter = call.name, !.page = 1,
                     !.ind = IF call.name = "worldbank" THEN 1 ELSE 0]
  ELSE NoJob

RawOf(j) ==
  CASE j.adapter = "acled" -> ACLEDRawRecord
    [] j.adapter = "worldbank" -> WBRawRecord(INDICATOR_CODES[j.ind])
    [] j.adapter = "overpass" -> OSMElement

\* hasMore of the FetchPageResult each fetchPage builds from the response;
\* resp.more: the page count of the response is above the page number
hasMore(j, resp) ==
  CASE j.adapter = "acled" -> Len(resp.data) = PAGE_LIMIT
    [] j.adapter = "worldbank" -> resp.data /= <<>> /\ resp.more
    [] j.adapter = "overpass" -> FALSE

\* the 2xx responses the source may send to the page request in flight
Responses(j) ==
  {r \in [data : SeqsUpTo(RawOf(j), PAGE_LIMIT), more : BOOLEAN] :
     /\ Len(j.results) + Len(j.all) + Len(r.data) <= MaxRecords
     /\ (j.adapter \in {"acled", "overpass"}) => ~r.more
     /\ hasMore(j, r) => j.page < MaxPages}

\* withRetry after a failed attempt: try again after the backoff, or give
\* up.  overpass.ts holds two builds of fetchAllRegions, one through
\* fetchAll and withRetry, one that issues its single query without retry.
RetryChoices(j) ==
  IF j.attempt = maxRetries THEN {FALSE}
  ELSE IF j.adapter = "overpass" /\ j.attempt = 0 THEN BOOLEAN
  ELSE {TRUE}

\* the upsert with which the runner of adapter stores its records
ApplyBatch(adapter, recs) ==
  CASE adapter = "acled" ->
         [tbl |-> "conflict_events", batch |-> recs,
          res |-> upsertConflicts(conflict_events, recs)]
    [] adapter = "worldbank" ->
         [tbl |-> "wb_indicators", batch |-> recs,
          res |-> upsertIndicators(countries, wb_indicators, recs)]
    [] adapter = "overpass" ->
         [tbl |-> "military_installations", batch |-> Dedupe(recs, {}),
          res |-> upsertInstallations(countries, military_installations,
                                      Dedupe(recs, {}))]

\* adapter.run settles with out: syncAdapterInternal and its caller go on up
\* to the next await
FinishRun(j, out, applied, batch, stored) ==
  LET w == World(1)
      k == Len(w.call.runs)
      w0 == [w EXCEPT !.call.runs[k] =
               [@ EXCEPT !.applied = applied, !.batch = batch,
                         !.exhausted = j.exhausted, !.stored = stored]]
  IN /\ Commit(1, Resume(w0, out))
     /\ job' = StartJob(calls'[1])

\* fetchAll (all indicators for worldbank) has returned recs: the rest of run
RunnerTail(j, recs) ==
  LET a == ApplyBatch(j.adapter, recs) IN
  /\ conflict_events' = IF a.tbl = "conflict_events" THEN a.res.table
                        ELSE conflict_events
  /\ wb_indicators' = IF a.tbl = "wb_indicators" THEN a.res.table ELSE wb_indicators
  /\ military_installations' = IF a.tbl = "military_installations" THEN a.res.table
                               ELSE military_installations
  /\ UNCHANGED <<countries, arms_transfers>>
  /\ IF a.res.threw
     THEN FinishRun(j, [threw |-> TRUE, fetched |-> 0, upserted |-> 0,
                        message |-> "constraint failed"], TRUE, a.batch, 0)
     ELSE FinishRun(j, [threw |-> FALSE, fetched |-> Len(a.batch),
                        upserted |-> a.res.count, message |-> NULL],
                    TRUE, a.batch, a.res.count)

\* fetchAllIndicators: on to the next code, or return allResults
NextIndicator(j) ==
  IF j.ind < Len(INDICATOR_CODES)
  THEN /\ job' = [j EXCEPT !.ind = @ + 1, !.page = 1, !.attempt = 0,
                           !.results = <<>>]
       /\ UNCHANGED <<running, adapters, sync_log, nextLogId, events, calls,
                      storeVars>>
  ELSE RunnerTail(j, j.all)

\* the renderer invokes sync:start with the name of an adapter
SyncStartNamed(arg) ==
  /\ arg /= NULL
  /\ HandleSyncStart(1, arg)
  /\ job' = StartJob(calls'[1])
  /\ UNCHANGED <<intervalHandle, sendFails, storeVars, lastOp, tokenVars, cfgVars, engineVars>>

\* the page request in flight fails (network error, timeout, non-2xx,
\* success=false): the catch of withRetry
PageFetchFails ==
  /\ job.adapter /= NULL
  /\ \E retry \in RetryChoices(job) :
       IF retry
       THEN /\ job' = [job EXCEPT !.attempt = @ + 1]
            /\ UNCHANGED <<running, adapters, sync_log, nextLogId, events, calls,
                           storeVars>>
       ELSE LET j == [job EXCEPT !.exhausted = @ \/ (job.attempt = maxRetries)] IN
            IF job.adapter = "worldbank"
            THEN NextIndicator(j)
            ELSE /\ FinishRun(j, [threw |-> TRUE, fetched |-> 0, upserted |-> 0,
                                  message |-> "Error fetching page"],
                              FALSE, <<>>, 0)
                 /\ UNCHANGED storeVars
  /\ UNCHANGED <<intervalHandle, sendFails, lastOp, tokenVars, cfgVars, engineVars>>

\* the page request in flight is answered: fetchAll takes the page
PageArrives ==
  /\ job.adapter /= NULL
  /\ \E resp \in Responses(job) :
       LET j == [job EXCEPT !.results = @ \o NormalizeAll(job.adapter, resp.data),
                            !.attempt = 0]
       IN IF hasMore(job, resp)
          THEN /\ job' = [j EXCEPT !.page = @ + 1]
               /\ UNCHANGED <<running, adapters, sync_log, nextLogId, events, calls,
                              storeVars>>
          ELSE IF job.adapter = "worldbank"
               THEN NextIndicator([j EXCEPT !.all = @ \o j.results, !.results = <<>>])
               ELSE RunnerTail(j, j.results)
  /\ UNCHANGED <<intervalHandle, sendFails, lastOp, tokenVars, cfgVars, engineVars>>

RunNext ==
  \/ \E arg \in IpcArgs : SyncStartNamed(arg)
  \/ PageFetchFails
  \/ PageArrives

SpecRun == Init /\ [][RunNext]_vars

(***************************************************************************)
(* AcledAdapter: the OAuth2 token pair of the credentialed source.  The    *)
(* repository holds two texts of the class, the one in acled.ts and the    *)
(* one in cia-factbook.ts; `build` says which of them is compiled in.      *)
(* Clock readings are in seconds: the program reads Date.now() in ms, all  *)
(* its time constants are multiples of 1000 ms and expires_in comes in     *)
(* seconds.  The field names are those of AcledTokens; acled.ts calls the  *)
(* two expiries expiresAt and refreshTokenExpiresAt.                       *)
(***************************************************************************)
REFRESH_BUFFER_MS == 60000

REFRESH_TOKEN_TTL_MS == 14 * 24 * 60 * 60 * 1000

Seconds(ms) == ms \div 1000

Builds == {"acled.ts", "cia-factbook.ts"}

\* expires_in, in seconds, as the token endpoint may send it: one day (also
\* the value the build of cia-factbook.ts assumes when the field is absent)
\* and the lifetime of the refresh token
ExpiresIn == {86400, Seconds(REFRESH_TOKEN_TTL_MS)}

\* this.tokens = null
NoTokens == [present |-> FALSE, accessToken |-> <<>>, refreshToken |-> <<>>,
             tokenExpiry |-> 0, refreshTokenExpiry |-> 0]

\* no fetchPage has been called
NoFetch == [at |-> 0, held |-> NoTokens, calls |-> <<>>, result |-> "none",
            bearer |-> <<>>]

\* expires_in as the token endpoint may send it: the endpoint is free to
\* send a lifetime above the one the adapter assumes for the refresh token
ServerExpiresIn == ExpiresIn \cup {2 * Seconds(REFRESH_TOKEN_TTL_MS)}

\* answers of the token endpoint: ok is a 2xx answer with an access_token
TokenResponses ==
  {r \in [ok : BOOLEAN, expires_in : ServerExpiresIn, refresh_token : BOOLEAN] :
     ~r.ok => (r.expires_in = 86400 /\ ~r.refresh_token)}

\* the pair the constructor gets from the settings: none, or the pair a
\* login at clock reading 0 left there
RestoredTokens ==
  {NoTokens} \cup
  {[present |-> TRUE, accessToken |-> <<"access", 0>>, refreshToken |-> r,
    tokenExpiry |-> e, refreshTokenExpiry |-> Seconds(REFRESH_TOKEN_TTL_MS)] :
     r \in {<<>>, <<"refresh", 0>>}, e \in ExpiresIn}

\* now < expiry - REFRESH_BUFFER_MS
AccessStillValidNoBufferMut(tk, t) == t < tk.tokenExpiry

AccessStillValid(tk, t) == t < tk.tokenExpiry - Seconds(REFRESH_BUFFER_MS)

\* the second test of ensureValidToken / ensureValidTokens
RefreshTokenUsable(b, tk, t) ==
  /\ tk.refreshToken /= <<>>
  /\ IF b = "acled.ts"
     THEN t < tk.refreshTokenExpiry - Seconds(REFRESH_BUFFER_MS)
     ELSE t < tk.refreshTokenExpiry

\* ensureValidToken(s) up to its first await
FirstStep(b, tk, t) ==
  IF tk.present /\ AccessStillValid(tk, t) THEN "use"
  ELSE IF tk.present /\ RefreshTokenUsable(b, tk, t) THEN "refresh"
  ELSE "password"

\* authenticate / fetchNewTokens on a 2xx answer with an access_token
authenticate(t, resp, n) ==
  [present |-> TRUE,
   accessToken |-> <<"access", n>>,
   refreshToken |-> IF resp.refresh_token THEN <<"refresh", n>> ELSE <<>>,
   tokenExpiry |-> t + resp.expires_in,
   refreshTokenExpiry |-> t + Seconds(REFRESH_TOKEN_TTL_MS)]

\* refreshAccessToken on a 2xx answer with an access_token
refreshAccessToken(b, tk, t, resp, n) ==
  [present |-> TRUE,
   accessToken |-> <<"access", n>>,
   refreshToken |-> IF resp.refresh_token THEN <<"refresh", n>> ELSE tk.refreshToken,
   tokenExpiry |-> t + resp.expires_in,
   refreshTokenExpiry |->
     IF b = "acled.ts"
     THEN IF resp.refresh_token THEN t + Seconds(REFRESH_TOKEN_TTL_MS)
          ELSE tk.refreshTokenExpiry
     ELSE tk.refreshTokenExpiry + Seconds(REFRESH_TOKEN_TTL_MS)]

\* clock readings around the expiries of the pair held
Instants(tk) ==
  IF ~tk.present THEN {}
  ELSE {tk.tokenExpiry - Seconds(REFRESH_BUFFER_MS) - 1,
        tk.tokenExpiry - Seconds(REFRESH_BUFFER_MS) + 1,
        tk.refreshTokenExpiry - Seconds(REFRESH_BUFFER_MS) - 1,
        tk.refreshTokenExpiry - Seconds(REFRESH_BUFFER_MS) + 1,
        tk.refreshTokenExpiry + 1}

Called(grant, ok) == [grant |-> grant, ok |-> ok]

\* fetchPage is called (by withRetry in fetchAll): credentials are set, so
\* it goes on to ensureValidToken(s), and with a token in hand to the data
\* request, which carries Authorization: Bearer accessToken
FetchPageStarts ==
  /\ auth = "idle"
  /\ fetches < MaxFetches
  /\ fetches' = fetches + 1
  /\ LET d == FirstStep(build, tokens, now) IN
     /\ auth' = CASE d = "use" -> "requesting"
                  [] d = "refresh" -> "refreshing"
                  [] d = "password" -> "authenticating"
     /\ last' = [at |-> now, held |-> tokens, calls |-> <<>>,
                 result |-> IF d = "use" THEN "sent" ELSE "pending",
                 bearer |-> IF d = "use" THEN tokens.accessToken ELSE <<>>]
  /\ UNCHANGED <<build, now, tokens, issued, storeVars, lastOp, schedVars, cfgVars, engineVars>>

\* the token endpoint answers the refresh-grant exchange
RefreshAnswers(resp) ==
  /\ auth = "refreshing"
  /\ IF resp.ok
     THEN /\ tokens' = refreshAccessToken(build, tokens, now, resp, issued + 1)
          /\ issued' = issued + 1
          /\ auth' = "requesting"
          /\ last' = [last EXCEPT !.calls = Append(@, Called("refresh", TRUE)),
                                  !.result = "sent",
                                  !.bearer = tokens'.accessToken]
     ELSE /\ UNCHANGED <<tokens, issued>>
          /\ IF build = "acled.ts"
             THEN /\ auth' = "idle"
                  /\ last' = [last EXCEPT !.calls = Append(@, Called("refresh", FALSE)),
                                          !.result = "threw"]
             ELSE /\ auth' = "authenticating"
                  /\ last' = [last EXCEPT !.calls = Append(@, Called("refresh", FALSE))]
  /\ UNCHANGED <<build, now, fetches, storeVars, lastOp, schedVars, cfgVars, engineVars>>

\* the token endpoint answers the password-grant login
LoginAnswers(resp) ==
  /\ auth = "authenticating"
  /\ IF resp.ok
     THEN /\ tokens' = authenticate(now, resp, issued + 1)
          /\ issued' = issued + 1
          /\ auth' = "requesting"
          /\ last' = [last EXCEPT !.calls = Append(@, Called("password", TRUE)),
                                  !.result = "sent",
                                  !.bearer = tokens'.accessToken]
     ELSE /\ UNCHANGED <<tokens, issued>>
          /\ auth' = "idle"
          /\ last' = [last EXCEPT !.calls = Append(@, Called("password", FALSE)),
                                  !.result = "threw"]
  /\ UNCHANGED <<build, now, fetches, storeVars, lastOp, schedVars, cfgVars, engineVars>>

\* the data request ends (with a page or an error): fetchPage is over
DataRequestEnds ==
  /\ auth = "requesting"
  /\ auth' = "idle"
  /\ UNCHANGED <<build, now, tokens, issued, fetches, last, storeVars, lastOp,
                 schedVars, cfgVars, engineVars>>

\* time passes
ClockAdvances ==
  /\ \E t \in Instants(tokens) : t > now /\ now' = t
  /\ UNCHANGED <<build, tokens, auth, issued, fetches, last, storeVars, lastOp,
                 schedVars, cfgVars, engineVars>>

\* a new AcledAdapter(email, password, existingTokens)
TokenInit ==
  /\ SeededStore
  /\ lastOp = NoOp
  /\ SchedulerConstructed
  /\ build \in Builds
  /\ now = 0
  /\ tokens \in RestoredTokens
  /\ auth = "idle"
  /\ issued = 0
  /\ fetches = 0
  /\ last = NoFetch
  /\ SettingsNotFollowed
  /\ intervalMs = 0
  /\ EngineNotFollowed

TokenNext ==
  \/ FetchPageStarts
  \/ \E resp \in TokenResponses : RefreshAnswers(resp)
  \/ \E resp \in TokenResponses : LoginAnswers(resp)
  \/ DataRequestEnds
  \/ ClockAdvances

SpecToken == TokenInit /\ [][TokenNext]_vars

(***************************************************************************)
(* The acled runner of initAdapters with the token pair of its adapter:    *)
(* the settings hold no pair or the pair an earlier run has written back,  *)
(* time passes, sync:start('acled') is invoked, the runner restores the    *)
(* pair from the settings, fetchAll pages through the source with          *)
(* withRetry around each fetchPage, and the runner stores the events and   *)
(* writes the pair back.  The run is short against the lifetimes of the    *)
(* tokens.  The pages hold events of a country that is in the store.       *)
(***************************************************************************)
\* existingTokens of the acled runner
existingTokens(s) ==
  IF s["acledAccessToken"] /= <<>>
  THEN [present |-> TRUE,
        accessToken |-> s["acledAccessToken"],
        refreshToken |-> s["acledRefreshToken"],
        tokenExpiry |-> s["acledTokenExpiry"],
        refreshTokenExpiry |-> s["acledRefreshTokenExpiry"]]
  ELSE NoTokens

\* the acled runner without its db.updateSettings
PersistNothingMut(tbl, tk) == tbl

\* newTokens = adapter.getTokens(); if (newTokens) db.updateSettings({...})
PersistTokens(tbl, tk) ==
  IF tk.present
  THEN updateSettings(tbl, [acledAccessToken |-> tk.accessToken,
                            acledRefreshToken |-> tk.refreshToken,
                            acledTokenExpiry |-> tk.tokenExpiry,
                            acledRefreshTokenExpiry |-> tk.refreshTokenExpiry])
  ELSE tbl

\* fetchPage up to its first await, called at clock reading t with pair tk
fetchPage(b, tk, t) ==
  LET d == FirstStep(b, tk, t) IN
  [auth |-> CASE d = "use" -> "requesting"
              [] d = "refresh" -> "refreshing"
              [] d = "password" -> "authenticating",
   last |-> [at |-> t, held |-> tk, calls |-> <<>>,
             result |-> IF d = "use" THEN "sent" ELSE "pending",
             bearer |-> IF d = "use" THEN tk.accessToken ELSE <<>>]]

\* messages of the errors an acled run can end with
NotConfiguredMessage == "ACLED email and password not configured. Set them in Settings"
LoginFailedMessage == "Check your email and password in Settings"
RefreshFailedMessage == "ACLED token refresh failed"
FetchFailedMessage == "[AcledAdapter] Error fetching page"

\* the request whose adapter run is in progress
ActiveCall == CHOOSE c \in DOMAIN calls : calls[c].st = "pending"

\* the scheduler's state and the request in progress, with the latest run of
\* the request changed by f
WithRun(f(_)) ==
  LET w == World(ActiveCall) IN
  [w EXCEPT !.call.runs[Len(w.call.runs)] = f(@)]

\* pages of the source in SpecAcled
AcledResponses(j) ==
  {r \in Responses(j) :
     \A i \in DOMAIN r.data :
       /\ r.data[i].iso3 = "AAA"
       /\ r.data[i].event_id_cnty = IF Len(j.results) + i = 1 THEN "a1" ELSE "a2"}

\* the renderer invokes sync:start('acled')
AcledSyncStart ==
  /\ Fresh(1)
  /\ "acled" \in KNOWN_ADAPTERS
  /\ LET c == 1
         s == getSettings(settings)
         w == syncAdapter([World(c) EXCEPT !.call.kind = "syncAdapter",
                                           !.call.via = "ipc",
                                           !.call.name = "acled"], "acled")
     IN IF w.call.st /= "pending"
        THEN /\ Commit(c, w)
             /\ UNCHANGED <<job, tokens, auth, fetches, last>>
        ELSE IF ~AcledConfigured(s)
        THEN /\ Commit(c, Resume(w, [threw |-> TRUE, fetched |-> 0, upserted |-> 0,
                                     message |-> NotConfiguredMessage]))
             /\ UNCHANGED <<job, tokens, auth, fetches, last>>
        ELSE LET f == fetchPage(build, existingTokens(s), now) IN
             /\ Commit(c, w)
             /\ job' = [NoJob EXCEPT !.adapter = "acled", !.page = 1]
             /\ tokens' = existingTokens(s)
             /\ auth' = f.auth
             /\ last' = f.last
             /\ fetches' = 1
  /\ UNCHANGED <<build, now, issued, intervalHandle, sendFails, storeVars, lastOp,
                 cfgVars, engineVars>>

\* the catch of withRetry around fetchPage: wait and call fetchPage again, or
\* rethrow when the attempts are used up, which ends fetchAllEvents, the
\* runner and the run
WithRetryCatch(message, failedLogins) ==
  LET w == WithRun(LAMBDA r : [r EXCEPT !.loginFails = @ + failedLogins,
                                        !.exhausted = job.attempt = maxRetries])
  IN IF job.attempt < maxRetries
     THEN /\ job' = [job EXCEPT !.attempt = @ + 1]
          /\ auth' = "backoff"
          /\ UNCHANGED fetches
          /\ Commit(ActiveCall, w)
     ELSE /\ job' = NoJob
          /\ auth' = "idle"
          /\ fetches' = 0
          /\ Commit(ActiveCall, Resume(w, [threw |-> TRUE, fetched |-> 0,
                                           upserted |-> 0, message |-> message]))

\* the delay of withRetry is over: fetchPage is called again
AcledBackoffEnds ==
  /\ job.adapter = "acled"
  /\ auth = "backoff"
  /\ LET f == fetchPage(build, tokens, now) IN
     /\ auth' = f.auth
     /\ last' = f.last
  /\ fetches' = fetches + 1
  /\ UNCHANGED <<build, now, tokens, issued, job, running, adapters, intervalHandle,
                 sync_log, nextLogId, events, calls, sendFails, storeVars, lastOp,
                 cfgVars, engineVars>>

\* the token endpoint answers the refresh-grant exchange of the run
AcledRefreshAnswers(resp) ==
  /\ job.adapter = "acled"
  /\ auth = "refreshing"
  /\ IF resp.ok
     THEN /\ tokens' = refreshAccessToken(build, tokens, now, resp, issued + 1)
          /\ issued' = issued + 1
          /\ auth' = "requesting"
          /\ last' = [last EXCEPT !.calls = Append(@, Called("refresh", TRUE)),
                                  !.result = "sent",
                                  !.bearer = tokens'.accessToken]
          /\ Commit(ActiveCall, WithRun(LAMBDA r : [r EXCEPT !.obtained = TRUE]))
          /\ UNCHANGED <<job, fetches>>
     ELSE /\ UNCHANGED <<tokens, issued>>
          /\ IF build = "acled.ts"
             THEN /\ last' = [last EXCEPT !.calls = Append(@, Called("refresh", FALSE)),
                                          !.result = "threw"]
                  /\ WithRetryCatch(RefreshFailedMessage, 0)
             ELSE /\ auth' = "authenticating"
                  /\ last' = [last EXCEPT !.calls = Append(@, Called("refresh", FALSE))]
                  /\ UNCHANGED <<job, running, adapters, sync_log, nextLogId, events,
                                 calls, fetches>>
  /\ UNCHANGED <<build, now, intervalHandle, sendFails, storeVars, lastOp, cfgVars, engineVars>>

\* the token endpoint answers the password-grant login of the run
AcledLoginAnswers(resp) ==
  /\ job.adapter = "acled"
  /\ auth = "authenticating"
  /\ IF resp.ok
     THEN /\ tokens' = authenticate(now, resp, issued + 1)
          /\ issued' = issued + 1
          /\ auth' = "requesting"
          /\ last' = [last EXCEPT !.calls = Append(@, Called("password", TRUE)),
                                  !.result = "sent",
                                  !.bearer = tokens'.accessToken]
          /\ Commit(ActiveCall, WithRun(LAMBDA r : [r EXCEPT !.obtained = TRUE]))
          /\ UNCHANGED <<job, fetches>>
     ELSE /\ UNCHANGED <<tokens, issued>>
          /\ last' = [last EXCEPT !.calls = Append(@, Called("password", FALSE)),
                                  !.result = "threw"]
          /\ WithRetryCatch(LoginFailedMessage, 1)
  /\ UNCHANGED <<build, now, intervalHandle, sendFails, storeVars, lastOp, cfgVars, engineVars>>

\* the data request of the run fails (network error, timeout, non-2xx,
\* success=false)
AcledDataFails ==
  /\ job.adapter = "acled"
  /\ auth = "requesting"
  /\ WithRetryCatch(FetchFailedMessage, 0)
  /\ last' = IF job.attempt < maxRetries THEN last ELSE NoFetch
  /\ UNCHANGED <<build, now, tokens, issued, intervalHandle, sendFails, storeVars,
                 lastOp, cfgVars, engineVars>>

\* the data request of the run is answered: fetchAll takes the page and
\* calls fetchPage for the next one, or returns and the runner goes on to
\* upsertConflicts, the settings and its result
AcledDataArrives ==
  /\ job.adapter = "acled"
  /\ auth = "requesting"
  /\ \E resp \in AcledResponses(job) :
     LET j == [job EXCEPT !.results = @ \o NormalizeAll("acled", resp.data),
                          !.attempt = 0]
     IN IF hasMore(job, resp)
        THEN LET f == fetchPage(build, tokens, now) IN
             /\ job' = [j EXCEPT !.page = @ + 1]
             /\ auth' = f.auth
             /\ last' = f.last
             /\ fetches' = fetches + 1
             /\ UNCHANGED <<running, adapters, sync_log, nextLogId, events, calls,
                            storeVars, settings>>
        ELSE LET res == upsertConflicts(conflict_events, j.results)
                 w == WithRun(LAMBDA r : [r EXCEPT !.applied = TRUE,
                                                   !.batch = j.results,
                                                   !.stored = res.count])
             IN /\ conflict_events' = res.table
                /\ settings' = PersistTokens(settings, tokens)
                /\ Commit(ActiveCall, Resume(w, [threw |-> FALSE,
                                                 fetched |-> Len(j.results),
                                                 upserted |-> res.count,
                                                 message |-> NULL]))
                /\ job' = NoJob
                /\ auth' = "idle"
                /\ fetches' = 0
                /\ last' = NoFetch
                /\ UNCHANGED <<countries, arms_transfers, military_installations,
                               wb_indicators>>
  /\ UNCHANGED <<build, now, tokens, issued, intervalHandle, sendFails, lastOp,
                 intervalMs, lastSet, engineVars>>

\* time passes before the request
TimePassesBeforeRun ==
  /\ calls[1].kind = "none"
  /\ \E t \in Instants(existingTokens(getSettings(settings))) : t > now /\ now' = t
  /\ UNCHANGED <<build, tokens, auth, issued, fetches, last, storeVars, lastOp,
                 schedVars, cfgVars, engineVars>>

\* the pairs a run that logged in at clock reading 0 has written back
StoredPairs == {authenticate(0, r, 0) : r \in {x \in TokenResponses : x.ok}}

\* the application has started with the periodic sync switched off; the ACLED
\* account may lack its password
AcledInit ==
  /\ SeededStore
  /\ lastOp = NoOp
  /\ SchedulerConstructed
  /\ build \in Builds
  /\ now = 0
  /\ tokens = NoTokens
  /\ auth = "idle"
  /\ issued = 0
  /\ fetches = 0
  /\ last = NoFetch
  /\ \E password \in {"", ACLED_ACCOUNT.acledPassword} :
     \E stored \in {NoTokens} \cup StoredPairs :
       settings = PersistTokens(updateSettings(SeedSettings,
                                               [acledEmail |-> ACLED_ACCOUNT.acledEmail,
                                                acledPassword |-> password,
                                                syncIntervalMinutes |-> 0]),
                                stored)
  /\ intervalMs = 0
  /\ lastSet = NoSet
  /\ EngineNotFollowed

AcledNext ==
  \/ AcledSyncStart
  \/ AcledBackoffEnds
  \/ \E resp \in TokenResponses : AcledRefreshAnswers(resp)
  \/ \E resp \in TokenResponses : AcledLoginAnswers(resp)
  \/ AcledDataFails
  \/ AcledDataArrives
  \/ TimePassesBeforeRun

SpecAcled == AcledInit /\ [][AcledNext]_vars

(***************************************************************************)
(* The window of successive acled runs.  sync:start requests are made      *)
(* while the clock runs; the runner's promise settles with an outcome as   *)
(* the scheduler sees it.  started_at and completed_at of the sync_log     *)
(* rows are the clock readings of logSyncStart and of logSyncComplete /    *)
(* logSyncError.                                                           *)
(***************************************************************************)
\* sync:start requests followed
MaxSyncs == 3

\* seconds the clock is followed for after the application has started
MaxSeconds == 4

\* the clock when the application starts: some instant more than two years
\* after the epoch
AppStart == 3 * 365 * 86400

\* one second passes
SecondPasses ==
  /\ now < AppStart + MaxSeconds
  /\ now' = now + 1
  /\ UNCHANGED <<build, tokens, auth, issued, fetches, last, storeVars, lastOp,
                 schedVars, cfgVars, engineVars>>

WatermarkInit ==
  /\ SeededStore
  /\ lastOp = NoOp
  /\ running = FALSE
  /\ adapters = <<>>
  /\ intervalHandle = FALSE
  /\ sync_log = <<>>
  /\ nextLogId = 1
  /\ events = <<>>
  /\ calls = [c \in 1..MaxSyncs |-> NoCall]
  /\ sendFails = FALSE
  /\ job = NoJob
  /\ build = "cia-factbook.ts"
  /\ now = AppStart
  /\ tokens = [present |-> FALSE, accessToken |-> <<>>, refreshToken |-> <<>>,
               tokenExpiry |-> 0, refreshTokenExpiry |-> 0]
  /\ auth = "idle"
  /\ issued = 0
  /\ fetches = 0
  /\ last = [at |-> 0, held |-> tokens, calls |-> <<>>, result |-> "none",
             bearer |-> <<>>]
  /\ SettingsNotFollowed
  /\ intervalMs = 0
  /\ EngineNotFollowed

WatermarkNext ==
  \/ \E c \in 1..MaxSyncs : \E arg \in {"acled", "worldbank"} : IpcSyncStart(c, arg)
  \/ \E c \in 1..MaxSyncs : \E out \in RunOutcomes : RunSettles(c, out)
  \/ SecondPasses

SpecWatermark == WatermarkInit /\ [][WatermarkNext]_vars

(***************************************************************************)
(* The settings handlers of ipc-handlers and the periodic timer.  The      *)
(* application has started: app.whenReady has read the saved interval and, *)
(* when it is positive, called start(interval).  The renderer then makes   *)
(* settings:set requests; the timer fires and the runs it starts settle.   *)
(***************************************************************************)
\* keys settings:set copies from the payload
WRITABLE_SETTINGS_KEYS ==
  {"acledEmail", "acledPassword", "syncIntervalMinutes", "mapDefaultCenter",
   "mapDefaultZoom"}

\* syncIntervalMinutes a session can have been left with: the default, a
\* choice of the Settings view, or 0 (no periodic sync)
SavedIntervals == {0, 15, DEFAULT_SETTINGS["syncIntervalMinutes"]}

\* entries a settings:set payload may carry: two writable keys, the
\* displayTimezone the Settings view sends with every save, and a token
\* field
PayloadKeys == {"syncIntervalMinutes", "mapDefaultZoom", "displayTimezone",
                "acledAccessToken"}

Payloads ==
  {[k \in K |-> full[k]] :
     full \in [syncIntervalMinutes : {0, 15}, mapDefaultZoom : {5},
               displayTimezone : {"Europe/Paris"},
               acledAccessToken : {<<"forged", 0>>}],
     K \in SUBSET PayloadKeys}

\* what the renderer passes as the payload: an object, null or an array
PayloadShapes == {"object", "null", "array"}

\* ipcMain.handle('settings:set')
IpcSettingsSet(shape, partial) ==
  /\ IF shape /= "object"
     THEN /\ lastSet' = [made |-> TRUE, shape |-> shape, payload |-> <<>>,
                         before |-> settings, ok |-> FALSE]
          /\ UNCHANGED settings
     ELSE LET filtered == [k \in DOMAIN partial \cap WRITABLE_SETTINGS_KEYS |-> partial[k]]
          IN /\ settings' = updateSettings(settings, filtered)
             /\ lastSet' = [made |-> TRUE, shape |-> shape, payload |-> partial,
                            before |-> settings, ok |-> TRUE]
  /\ UNCHANGED <<intervalMs, schedVars, storeVars, lastOp, tokenVars, engineVars>>

SettingsInit ==
  /\ SeededStore
  /\ lastOp = NoOp
  /\ TokensNotFollowed
  /\ \E m \in SavedIntervals :
       /\ settings = updateSettings(SeedSettings, [syncIntervalMinutes |-> m])
       /\ intervalHandle = (m > 0)
       /\ intervalMs = IF m > 0 THEN start(m) ELSE 0
       /\ adapters = IF m > 0 THEN initAdapters ELSE <<>>
  /\ lastSet = NoSet
  /\ running = FALSE
  /\ sync_log = <<>>
  /\ nextLogId = 1
  /\ events = <<>>
  /\ calls = [c \in 1..MaxCalls |-> NoCall]
  /\ sendFails = FALSE
  /\ job = NoJob
  /\ EngineNotFollowed

SettingsNext ==
  \/ \E shape \in PayloadShapes :
       \E partial \in IF shape = "object" THEN Payloads ELSE {<<>>} :
         IpcSettingsSet(shape, partial)
  \/ \E c \in 1..MaxCalls : TimerFires(c)
  \/ \E c \in 1..MaxCalls : \E out \in RunOutcomes : RunSettles(c, out)

SpecSettings == SettingsInit /\ [][SettingsNext]_vars

(***************************************************************************)
(* base-adapter.ts, withRetry(fn, maxRetries, baseDelayMs) on its own: fn  *)
(* is any asynchronous function, each of its invocations resolves with a   *)
(* value or rejects with an error.  One step per settlement of a promise   *)
(* (of fn or of the setTimeout of the backoff).                            *)
(***************************************************************************)
\* default of the parameter baseDelayMs of withRetry
baseDelayMs == 2000

\* the arguments withRetry is called with: the defaults, and others
RetryCounts == {0, 1, maxRetries}

BaseDelays == {1000, baseDelayMs}

\* what an invocation of fn resolves with, or rejects with
FnValues == {"v1", "v2"}

FnErrors == {"e1", "e2"}

\* a delay that grows by baseDelayMs with each attempt
BackoffLinearMut(base, attempt) == base * (attempt + 1)

\* baseDelayMs * Math.pow(2, attempt)
Backoff(base, attempt) == base * 2^attempt

\* withRetry is called: the loop starts and fn is invoked (attempt 0)
WithRetryCalled(m, base) ==
  /\ retrier.phase = "idle"
  /\ retrier' = [NoRetry EXCEPT !.phase = "calling", !.maxRetries = m,
                                !.baseDelayMs = base, !.calls = 1]
  /\ UNCHANGED <<loop, gate, storeVars, lastOp, schedVars, tokenVars, cfgVars>>

\* the promise of fn resolves: return await fn()
FnResolves(v) ==
  /\ retrier.phase = "calling"
  /\ retrier' = [retrier EXCEPT !.phase = "returned", !.value = v]
  /\ UNCHANGED <<loop, gate, storeVars, lastOp, schedVars, tokenVars, cfgVars>>

\* the promise of fn rejects: the catch block, and when this was the last
\* attempt the end of the loop and `throw lastErr`
FnRejects(e) ==
  /\ retrier.phase = "calling"
  /\ IF retrier.attempt < retrier.maxRetries
     THEN retrier' = [retrier EXCEPT
                        !.phase = "waiting",
                        !.errs = Append(@, e),
                        !.delays = Append(@, Backoff(retrier.baseDelayMs,
                                                     retrier.attempt))]
     ELSE retrier' = [retrier EXCEPT !.phase = "threw", !.errs = Append(@, e),
                                     !.err = e]
  /\ UNCHANGED <<loop, gate, storeVars, lastOp, schedVars, tokenVars, cfgVars>>

\* the setTimeout of the backoff fires: attempt++ and fn is invoked again
RetryDelayEnds ==
  /\ retrier.phase = "waiting"
  /\ retrier' = [retrier EXCEPT !.phase = "calling", !.attempt = @ + 1,
                                !.calls = @ + 1]
  /\ UNCHANGED <<loop, gate, storeVars, lastOp, schedVars, tokenVars, cfgVars>>

RetryInit ==
  /\ SeededStore
  /\ lastOp = NoOp
  /\ SchedulerConstructed
  /\ TokensNotFollowed
  /\ SettingsNotFollowed
  /\ intervalMs = 0
  /\ EngineNotFollowed

RetryNext ==
  \/ \E m \in RetryCounts : \E base \in BaseDelays : WithRetryCalled(m, base)
  \/ \E v \in FnValues : FnResolves(v)
  \/ \E e \in FnErrors : FnRejects(e)
  \/ RetryDelayEnds

SpecRetry == RetryInit /\ [][RetryNext]_vars

(***************************************************************************)
(* base-adapter.ts, fetchAll(initialParams) on its own, for any adapter:   *)
(* fetchPage answers each cursor with a FetchPageResult or fails, and      *)
(* withRetry calls it again or gives up.  `requested` keeps, per page, the *)
(* cursors fetchPage was invoked with, `pages` the results fetchAll took.  *)
(***************************************************************************)
\* records on one page of the source
MaxPageData == 1

\* pages the source has: its last page reports hasMore = false
MaxSourcePages == 2

RawItems == {"r1", "r2"}

\* normalize of the adapter
NormalizeRaw(raw) == <<"normalized", raw>>

\* no parameters: {}
EmptyParams == [k \in {} |-> ""]

\* the cursors fetchAll is called with ({} is the default)
InitialParams == {EmptyParams, [page |-> "1"], [page |-> "1", q |-> "x"]}

\* nextParams of a FetchPageResult: absent, the next page number, or a
\* continuation token
NextParams == {EmptyParams, [page |-> "2"], [cursor |-> "c1"]}

\* what fetchPage may resolve with as page number n of the source
FetchPageResults(n) ==
  {r \in [data : SeqsUpTo(RawItems, MaxPageData), hasMore : BOOLEAN,
          nextParams : NextParams] :
     r.hasMore => n < MaxSourcePages}

\* the cursor replaced by nextParams instead of merged with it
ReplaceParamsMut(params, nextParams) == nextParams

\* { ...params, ...page.nextParams }
MergeParams(params, nextParams) ==
  [k \in DOMAIN params \cup DOMAIN nextParams |->
     IF k \in DOMAIN nextParams THEN nextParams[k] ELSE params[k]]

\* results.push(...page.data.map(raw => this.normalize(raw)))
PushNormalized(results, data) ==
  results \o [i \in DOMAIN data |-> NormalizeRaw(data[i])]

\* fetchAll is called: the first turn of the loop invokes fetchPage through
\* withRetry
FetchAllCalled(initial) ==
  /\ loop.phase = "idle"
  /\ loop' = [NoLoop EXCEPT !.phase = "fetching", !.initial = initial,
                            !.params = initial, !.requested = <<{initial}>>,
                            !.inFlight = 1]
  /\ UNCHANGED <<retrier, gate, storeVars, lastOp, schedVars, tokenVars, cfgVars>>

\* fetchPage rejects and withRetry invokes it again after the backoff: the
\* arrow function reads the same params
FetchPageRetried ==
  /\ loop.phase = "fetching"
  /\ loop.attempt < maxRetries
  /\ loop' = [loop EXCEPT
                !.attempt = @ + 1,
                !.requested[Len(loop.requested)] = @ \cup {loop.params}]
  /\ UNCHANGED <<retrier, gate, storeVars, lastOp, schedVars, tokenVars, cfgVars>>

\* fetchPage rejects on the last attempt: withRetry throws, and so does
\* fetchAll
FetchPageGivesUp ==
  /\ loop.phase = "fetching"
  /\ loop.attempt = maxRetries
  /\ loop' = [loop EXCEPT !.phase = "threw", !.inFlight = 0]
  /\ UNCHANGED <<retrier, gate, storeVars, lastOp, schedVars, tokenVars, cfgVars>>

\* withRetry resolves with a page: the rest of the turn of the loop, and
\* either the next turn up to its await or the return
FetchPageResolves ==
  /\ loop.phase = "fetching"
  /\ \E page \in FetchPageResults(Len(loop.pages) + 1) :
       LET results == PushNormalized(loop.results, page.data)
           params == IF page.nextParams /= EmptyParams
                     THEN MergeParams(loop.params, page.nextParams)
                     ELSE loop.params
           taken == [loop EXCEPT !.results = results, !.hasMore = page.hasMore,
                                 !.params = params, !.attempt = 0,
                                 !.pages = Append(@, page)]
       IN IF page.hasMore
          THEN loop' = [taken EXCEPT !.requested = Append(@, {params})]
          ELSE loop' = [taken EXCEPT !.phase = "returned", !.inFlight = 0,
                                     !.returned = results]
  /\ UNCHANGED <<retrier, gate, storeVars, lastOp, schedVars, tokenVars, cfgVars>>

LoopInit ==
  /\ SeededStore
  /\ lastOp = NoOp
  /\ SchedulerConstructed
  /\ TokensNotFollowed
  /\ SettingsNotFollowed
  /\ intervalMs = 0
  /\ EngineNotFollowed

LoopNext ==
  \/ \E initial \in InitialParams : FetchAllCalled(initial)
  \/ FetchPageRetried
  \/ FetchPageGivesUp
  \/ FetchPageResolves

\* every fetch is answered or aborted by its timeout, and every timer
\* fires: a step that can be taken is taken
SpecLoop == LoopInit /\ [][LoopNext]_vars /\ WF_vars(LoopNext)

(***************************************************************************)
(* base-adapter.ts, the rate gate of one adapter instance.  Every adapter  *)
(* awaits each request before it makes the next one, so a call of          *)
(* rateLimitedRequest begins when none is in progress.  The clock of the   *)
(* gate is Date.now(), in ms; a setTimeout fires at its time or later.     *)
(***************************************************************************)
\* requests followed on one instance
MaxRequests == 3

\* Date.now() when the adapter is constructed (lastRequestTime is 0 then)
GateStartClock == 10000

\* rateLimitMs of the adapters: overpass; ucdp, worldbank and cia-factbook;
\* acled
RateLimits == {0, 500, 1000}

\* ms from the issue of a request to the next call of the gate: the time
\* the request takes, and what the caller does before it asks again
CallGaps == {0, 200, 500, 700, 1500}

\* ms by which a timer fires after its time
TimerLateness == {0, 100}

\* a wait of half the remaining time
GateDelayHalfMut(rateLimitMs, elapsed) == (rateLimitMs - elapsed) \div 2

\* setTimeout(r, this.rateLimitMs - elapsed)
GateDelay(rateLimitMs, elapsed) == rateLimitMs - elapsed

\* this.lastRequestTime = Date.now(), and fetch is called
IssueRequest(g, waitedFor) ==
  [g EXCEPT !.phase = "request", !.lastRequestTime = g.clock,
            !.issuedAt = Append(@, g.clock), !.waited = Append(@, waitedFor)]

\* rateLimitedRequest is called: up to the await of the gate, or up to the
\* await of fetch
RateLimitedRequestCalled ==
  /\ gate.phase = "idle"
  /\ Len(gate.calledAt) < MaxRequests
  /\ LET elapsed == gate.clock - gate.lastRequestTime
         g == [gate EXCEPT !.calledAt = Append(@, gate.clock)]
     IN IF elapsed < gate.rateLimitMs
        THEN gate' = [g EXCEPT !.phase = "waiting",
                               !.wakeAt = gate.clock + GateDelay(gate.rateLimitMs, elapsed)]
        ELSE gate' = IssueRequest(g, FALSE)
  /\ UNCHANGED <<loop, retrier, storeVars, lastOp, schedVars, tokenVars, cfgVars>>

\* the setTimeout of the gate fires
GateTimerFires ==
  /\ gate.phase = "waiting"
  /\ \E late \in TimerLateness :
       gate' = IssueRequest([gate EXCEPT !.clock = gate.wakeAt + late], TRUE)
  /\ UNCHANGED <<loop, retrier, storeVars, lastOp, schedVars, tokenVars, cfgVars>>

\* fetch settles (a response, a network error or the abort of the timeout)
\* and the caller comes to the point where it may ask again
RequestSettles ==
  /\ gate.phase = "request"
  /\ \E gap \in CallGaps : gate' = [gate EXCEPT !.phase = "idle", !.clock = @ + gap]
  /\ UNCHANGED <<loop, retrier, storeVars, lastOp, schedVars, tokenVars, cfgVars>>

GateInit ==
  /\ SeededStore
  /\ lastOp = NoOp
  /\ SchedulerConstructed
  /\ TokensNotFollowed
  /\ SettingsNotFollowed
  /\ intervalMs = 0
  /\ loop = NoLoop
  /\ retrier = NoRetry
  /\ \E limit \in RateLimits :
       gate = [NoGate EXCEPT !.rateLimitMs = limit, !.clock = GateStartClock]

GateNext ==
  \/ RateLimitedRequestCalled
  \/ GateTimerFires
  \/ RequestSettles

SpecGate == GateInit /\ [][GateNext]_vars

(***************************************************************************)
(* Direct use of the upsert layer: the store starts in a state earlier     *)
(* syncs can have left, one batch is applied by one of the five upsert     *)
(* methods, and the same batch is then applied once more.                  *)
(***************************************************************************)
\* country rows come from natural-earth and the cia-factbook runner, which
\* always fill iso2 and name (with '' or the iso3 code when unknown)
CountryRecs == [iso3 : {"AAA", "BBB"}, name : {"n1", "n2"}]
ConflictRecs == [id : {"e1", "e2"}, iso3 : {NULL, "", "AAA", "XKX"}]
ArmsRecs == [id : {"t1", "t2"}, supplier_iso3 : {"AAA", "XKX"}, recipient_iso3 : {"AAA", "BBB"}]
InstallationRecs == [id : {"i1", "i2"}, iso3 : {"", "AAA", "XKX"}]
IndicatorRecs == [iso3 : {"AAA", "WLD"}, indicator_code : {"MS.MIL.XPND.GD.ZS"},
                  year : {2020, 2021}, value : {1, 2}]

TableNames == {"countries", "conflict_events", "arms_transfers",
               "military_installations", "wb_indicators"}

RecsOf(tbl) ==
  CASE tbl = "countries" -> CountryRecs
    [] tbl = "conflict_events" -> ConflictRecs
    [] tbl = "arms_transfers" -> ArmsRecs
    [] tbl = "military_installations" -> InstallationRecs
    [] tbl = "wb_indicators" -> IndicatorRecs

\* what the statement of table tbl accepts for one record, given countries C
RowOk(tbl, C, r) ==
  CASE tbl = "countries" -> CountryRowOk(r)
    [] tbl = "conflict_events" -> ConflictRowOk(r)
    [] tbl = "arms_transfers" -> ArmsRowOk(C, r)
    [] tbl = "military_installations" -> InstallationRowOk(C, r)
    [] tbl = "wb_indicators" -> CountryExists(C, r.iso3)

TableOf(tbl) ==
  CASE tbl = "countries" -> countries
    [] tbl = "conflict_events" -> conflict_events
    [] tbl = "arms_transfers" -> arms_transfers
    [] tbl = "military_installations" -> military_installations
    [] tbl = "wb_indicators" -> wb_indicators

\* the driver applies a batch, and then the same batch a second time
MayApply(tbl, batch) ==
  \/ lastOp.n = 0
  \/ lastOp.n = 1 /\ lastOp.tbl = tbl /\ lastOp.batch = batch

Applied(tbl, batch, before, res) ==
  [tbl |-> tbl, batch |-> batch, before |-> before, count |-> res.count,
   threw |-> res.threw, n |-> lastOp.n + 1,
   firstCount |-> IF lastOp.n = 0 THEN res.count ELSE lastOp.firstCount,
   firstThrew |-> IF lastOp.n = 0 THEN res.threw ELSE lastOp.firstThrew]

SeedCountries == {<<>>, <<[iso3 |-> "AAA", name |-> "n1"]>>,
                  <<[iso3 |-> "AAA", name |-> "n1"], [iso3 |-> "BBB", name |-> "n1"]>>}

\* a child table holds nothing or one row its constraints accept
SeedRows(tbl, C) == {<<>>} \cup {<<r>> : r \in {x \in RecsOf(tbl) : RowOk(tbl, C, x)}}

UpsertInit ==
  /\ countries \in SeedCountries
  /\ \E seeded \in TableNames \ {"countries"} :
       /\ conflict_events \in IF seeded = "conflict_events"
                               THEN SeedRows(seeded, countries) ELSE {<<>>}
       /\ arms_transfers \in IF seeded = "arms_transfers"
                              THEN SeedRows(seeded, countries) ELSE {<<>>}
       /\ military_installations \in IF seeded = "military_installations"
                                      THEN SeedRows(seeded, countries) ELSE {<<>>}
       /\ wb_indicators \in IF seeded = "wb_indicators"
                             THEN SeedRows(seeded, countries) ELSE {<<>>}
  /\ lastOp = NoOp
  /\ SchedulerConstructed
  /\ TokensNotFollowed
  /\ SettingsNotFollowed
  /\ intervalMs = 0
  /\ EngineNotFollowed

UpsertCountriesCall ==
  \E batch \in SeqsUpTo(CountryRecs, MaxBatch) :
    /\ MayApply("countries", batch)
    /\ LET res == upsertCountries(countries, batch) IN
         /\ countries' = res.table
         /\ lastOp' = Applied("countries", batch, countries, res)
    /\ UNCHANGED <<conflict_events, arms_transfers, military_installations, wb_indicators, schedVars, tokenVars, cfgVars, engineVars>>

UpsertConflictsCall ==
  \E batch \in SeqsUpTo(ConflictRecs, MaxBatch) :
    /\ MayApply("conflict_events", batch)
    /\ LET res == upsertConflicts(conflict_events, batch) IN
         /\ conflict_events' = res.table
         /\ lastOp' = Applied("conflict_events", batch, conflict_events, res)
    /\ UNCHANGED <<countries, arms_transfers, military_installations, wb_indicators, schedVars, tokenVars, cfgVars, engineVars>>

UpsertArmsTransfersCall ==
  \E batch \in SeqsUpTo(ArmsRecs, MaxBatch) :
    /\ MayApply("arms_transfers", batch)
    /\ LET res == upsertArmsTransfers(countries, arms_transfers, batch) IN
         /\ arms_transfers' = res.table
         /\ lastOp' = Applied("arms_transfers", batch, arms_transfers, res)
    /\ UNCHANGED <<countries, conflict_events, military_installations, wb_indicators, schedVars, tokenVars, cfgVars, engineVars>>

UpsertInstallationsCall ==
  \E batch \in SeqsUpTo(InstallationRecs, MaxBatch) :
    /\ MayApply("military_installations", batch)
    /\ LET res == upsertInstallations(countries, military_installations, batch) IN
         /\ military_installations' = res.table
         /\ lastOp' = Applied("military_installations", batch, military_installations, res)
    /\ UNCHANGED <<countries, conflict_events, arms_transfers, wb_indicators, schedVars, tokenVars, cfgVars, engineVars>>

UpsertIndicatorsCall ==
  \E batch \in SeqsUpTo(IndicatorRecs, MaxBatch) :
    /\ MayApply("wb_indicators", batch)
    /\ LET res == upsertIndicators(countries, wb_indicators, batch) IN
         /\ wb_indicators' = res.table
         /\ lastOp' = Applied("wb_indicators", batch, wb_indicators, res)
    /\ UNCHANGED <<countries, conflict_events, arms_transfers, military_installations, schedVars, tokenVars, cfgVars, engineVars>>

UpsertNext ==
  \/ UpsertCountriesCall
  \/ UpsertConflictsCall
  \/ UpsertArmsTransfersCall
  \/ UpsertInstallationsCall
  \/ UpsertIndicatorsCall

SpecUpsert == UpsertInit /\ [][UpsertNext]_vars

(***************************************************************************)
(* Properties of the upsert layer.                                         *)
(***************************************************************************)
Occurrences(T, r) == Cardinality({i \in DOMAIN T : T[i] = r})

\* same rows: same number of rows and the same content
SameRows(A, B) ==
  /\ Len(A) = Len(B)
  /\ \A r \in Range(A) \cup Range(B) : Occurrences(A, r) = Occurrences(B, r)

UniqueKeys(tbl, T) ==
  \A i, j \in DOMAIN T : KeyOf(tbl, T[i]) = KeyOf(tbl, T[j]) => i = j

\* C5: a batch applied a second time leaves its table with the same rows
\* (count and content) as after the first application, with at most one row
\* per natural identifier, and returns the same upserted count (or raises
\* again, if the first application raised).
C5_IdempotentUpsert ==
  lastOp.n = 2 =>
    /\ SameRows(TableOf(lastOp.tbl), lastOp.before)
    /\ UniqueKeys(lastOp.tbl, TableOf(lastOp.tbl))
    /\ lastOp.count = lastOp.firstCount
    /\ lastOp.threw = lastOp.firstThrew

\* C5 witness: a batch of two records was applied twice, stored rows and
\* replaced a row that was already there.
C5_Witness ==
  /\ lastOp.n = 2
  /\ Len(lastOp.batch) = 2
  /\ lastOp.count = 2
  /\ \E i \in DOMAIN lastOp.batch : \E j \in DOMAIN lastOp.before :
       /\ KeyOf(lastOp.tbl, lastOp.batch[i]) = KeyOf(lastOp.tbl, lastOp.before[j])

\* C7: in every category a record that violates a constraint is skipped and
\* counted out, every other record of the batch is stored, and the
\* transaction is not aborted.
C7_PerRecordIsolation ==
  lastOp.n = 1 =>
    /\ ~lastOp.threw
    /\ lastOp.count = Cardinality({i \in DOMAIN lastOp.batch :
                                     RowOk(lastOp.tbl, countries, lastOp.batch[i])})
    /\ \A i \in DOMAIN lastOp.batch :
         RowOk(lastOp.tbl, countries, lastOp.batch[i])
           => \E k \in DOMAIN TableOf(lastOp.tbl) :
                KeyOf(lastOp.tbl, TableOf(lastOp.tbl)[k]) = KeyOf(lastOp.tbl, lastOp.batch[i])

(***************************************************************************)
(* Properties of the scheduler                                             *)
(***************************************************************************)
CallIds == 1..MaxCalls

Awaiting(c) == calls[c].st = "pending"

\* C1: single-flight for syncAdapter: while one syncAdapter call is awaiting
\* its adapter, no other syncAdapter call has started an adapter run of its
\* own, so two syncAdapter calls are never both awaiting an adapter.
C1_SingleFlightSyncOne ==
  \A c, d \in CallIds :
    (c /= d /\ calls[c].kind = "syncAdapter" /\ calls[d].kind = "syncAdapter")
      => ~(Awaiting(c) /\ Awaiting(d))

RunningRows == {i \in DOMAIN sync_log : sync_log[i].status = "running"}

\* C2: global mutual exclusion: at most one adapter run is between its
\* `running` log write and its terminal log write, whatever mix of syncAll,
\* syncAdapter and timer calls has been made.
C2_AtMostOneRunInProgress == Cardinality(RunningRows) <= 1

\* C3: every log row is given a terminal status at most once, also when the
\* push of the terminal progress event to the renderer raises.
C3_TerminalWrittenOnce == \A i \in DOMAIN sync_log : sync_log[i].writes <= 1

Terminal(status) == status \in {"completed", "error"}

\* C4: in a syncAll run, an adapter run that throws ends with its log row in
\* `error`, never makes syncAll throw, and syncAll returns only after every
\* registered adapter has been run in order, each log row terminal.
C4_FailureIsolation ==
  \A c \in CallIds :
    (calls[c].kind = "syncAll" /\ calls[c].accepted) =>
      LET runs == calls[c].runs IN
      /\ calls[c].st /= "threw"
      /\ \A k \in DOMAIN runs :
           /\ runs[k].name = initAdapters[k]
           /\ (runs[k].settled /\ runs[k].threw)
                => LogRow(sync_log, runs[k].logId).status = "error"
           /\ (k < Len(runs)) => runs[k].settled
      /\ calls[c].st = "returned" =>
           /\ Len(runs) = Len(initAdapters)
           /\ \A k \in DOMAIN runs :
                /\ runs[k].settled
                /\ Terminal(LogRow(sync_log, runs[k].logId).status)

\* C4 witness: a syncAll run has returned although an adapter that is not the
\* last registered one threw.
C4_Witness ==
  \E c \in CallIds :
    /\ calls[c].kind = "syncAll"
    /\ calls[c].st = "returned"
    /\ \E k \in DOMAIN calls[c].runs :
         k < Len(calls[c].runs) /\ calls[c].runs[k].threw

(***************************************************************************)
(* Properties of one adapter run                                           *)
(***************************************************************************)
\* the runs of the request served in SpecRun
Runs == calls[1].runs

NullLinked(batch) == {i \in DOMAIN batch : batch[i].iso3 = NULL}

\* a run that handed a batch of conflict events with exactly one record
\* without iso3 to upsertConflicts
OneBadConflict(r) ==
  /\ r.name = "acled"
  /\ r.settled
  /\ r.applied
  /\ Cardinality(NullLinked(r.batch)) = 1

C8_RetryExhaustion ==
  \A k \in DOMAIN Runs :
    (Runs[k].settled /\ Runs[k].exhausted) =>
      LET row == LogRow(sync_log, Runs[k].logId)
      IN /\ row.status = "error"
         /\ row.records_upserted = Runs[k].stored

\* an `error` progress event with a message was delivered for the adapter
ErrorEventFor(name) ==
  \E i \in DOMAIN events : /\ events[i].adapter = name
                           /\ events[i].status = "error"
                           /\ events[i].errorMessage /= NULL

\* C17: a run whose retrieval from the source failed (a page request failed
\* on every attempt) is not recorded as `completed`: once it has ended its
\* log row is in `error` with a message and an `error` progress event was
\* emitted for its adapter.
C17_NoSilentFailure ==
  \A k \in DOMAIN Runs :
    (Runs[k].settled /\ Runs[k].exhausted) =>
      LET row == LogRow(sync_log, Runs[k].logId)
      IN /\ row.status /= "completed"
         /\ row.error_message /= NULL
         /\ ErrorEventFor(Runs[k].name)

(***************************************************************************)
(* Properties of the token state machine                                   *)
(***************************************************************************)
Buffer == Seconds(REFRESH_BUFFER_MS)

\* the latest fetchPage began with a pair in hand, before / not before the
\* access expiry minus the buffer
BeganBeforeBuffer == last.result /= "none" /\ last.held.present
                     /\ last.at < last.held.tokenExpiry - Buffer

BeganInsideBuffer == last.result /= "none" /\ last.held.present
                     /\ last.at >= last.held.tokenExpiry - Buffer

\* what a fetchPage does when it refreshes first: its first call to the token
\* endpoint is a refresh-grant exchange, nothing is sent before the endpoint
\* has answered, and the data request carries the access token just issued
RefreshesFirst ==
  /\ (last.calls = <<>>) => (last.result = "pending" /\ auth = "refreshing")
  /\ (last.calls /= <<>>) => last.calls[1].grant = "refresh"
  /\ (last.result = "sent") =>
       /\ last.calls /= <<>>
       /\ last.bearer = tokens.accessToken
       /\ last.bearer /= last.held.accessToken

\* a fetchPage that began before the buffer uses the pair it held: no call
\* to the token endpoint, the pair unchanged, its access token as bearer
UsesHeldToken ==
  BeganBeforeBuffer =>
    /\ last.calls = <<>>
    /\ last.result = "sent"
    /\ last.bearer = last.held.accessToken
    /\ tokens = last.held

RefreshFailed == \E i \in DOMAIN last.calls : last.calls[i] = Called("refresh", FALSE)

\* C10: a fetchPage that began inside the buffer and whose refresh-grant
\* exchange failed, or that held no refresh token, logs in with the password
\* grant: it fails only if that login fails, and when the login succeeds the
\* data request is sent with the access token of the new pair.
C10_RefreshFailureFallback ==
  (BeganInsideBuffer /\ (RefreshFailed \/ last.held.refreshToken = <<>>)) =>
    /\ (last.result = "threw") =>
         \E i \in DOMAIN last.calls : last.calls[i] = Called("password", FALSE)
    /\ (last.result = "sent") =>
         /\ last.calls[Len(last.calls)] = Called("password", TRUE)
         /\ last.bearer = tokens.accessToken
    /\ (last.result = "pending") => auth = "authenticating"


(***************************************************************************)
(* Properties of the acled run with its token pair                         *)
(***************************************************************************)
\* the log row of a run
RowOf(r) == LogRow(sync_log, r.logId)

\* the pair the four token fields of the settings hold
SettingsPair == existingTokens(getSettings(settings))

\* C11: a password-grant login that fails during a page fetch is attempted
\* once: the run ends at once, its log row in `error` with the message that
\* names the credentials, and withRetry does not call fetchPage (and with it
\* the login) again.
C11_AuthFailureNotRetried ==
  \A k \in DOMAIN Runs :
    (Runs[k].name = "acled" /\ Runs[k].loginFails >= 1) =>
      /\ Runs[k].loginFails = 1
      /\ Runs[k].settled
      /\ RowOf(Runs[k]).status = "error"
      /\ RowOf(Runs[k]).error_message = LoginFailedMessage

PairOk(tk) == tk.present => tk.tokenExpiry <= tk.refreshTokenExpiry

\* C12: whatever logins and refresh exchanges the adapter has made, with any
\* expires_in and with or without a new refresh token in the answer, the
\* pair it holds has access-expiry <= refresh-expiry.
C12_TokenInvariant == PairOk(tokens)

\* a fetchPage of the run began with the pair restored from the settings in
\* hand, after the refresh-expiry of that pair
RestoredPairExpired ==
  /\ job.adapter = "acled"
  /\ last.result /= "none"
  /\ last.held.present
  /\ last.held = SettingsPair
  /\ last.held.refreshTokenExpiry < last.at

\* C13: a restored pair whose refresh-expiry is in the past counts as no
\* pair: its access token is not sent in a data request, its refresh token
\* is not sent in a refresh exchange, and the first call to the token
\* endpoint is a password-grant login.
C13_ExpiredRefreshMeansNoToken ==
  RestoredPairExpired =>
    /\ last.bearer /= last.held.accessToken
    /\ \A i \in DOMAIN last.calls : last.calls[i].grant = "password"
    /\ (last.calls = <<>>) => auth = "authenticating"

\* C14: when an acled run has ended `completed`, the four token fields of
\* the settings hold the pair the adapter held at the end of the run, also
\* when the run fetched no record.
C14_TokensPersistedOnCompletion ==
  \A k \in DOMAIN Runs :
    (Runs[k].name = "acled" /\ Runs[k].settled
       /\ RowOf(Runs[k]).status = "completed") =>
      /\ tokens.present
      /\ getSettings(settings)["acledAccessToken"] = tokens.accessToken
      /\ getSettings(settings)["acledRefreshToken"] = tokens.refreshToken
      /\ getSettings(settings)["acledTokenExpiry"] = tokens.tokenExpiry
      /\ getSettings(settings)["acledRefreshTokenExpiry"] = tokens.refreshTokenExpiry

\* C14 witness: a run that logged in and fetched no record has ended
\* `completed`, and the settings hold the pair of that login.
C14_Witness ==
  \E k \in DOMAIN Runs :
    /\ Runs[k].name = "acled"
    /\ Runs[k].settled
    /\ Runs[k].obtained
    /\ RowOf(Runs[k]).status = "completed"
    /\ RowOf(Runs[k]).records_fetched = 0
    /\ SettingsPair = tokens

\* C15: when an acled run in which the adapter obtained a new pair has
\* ended, `completed` or `error`, the settings hold that pair.
C15_TokensWrittenBackAfterEachRun ==
  \A k \in DOMAIN Runs :
    (Runs[k].name = "acled" /\ Runs[k].settled /\ Runs[k].obtained) =>
      SettingsPair = tokens

(***************************************************************************)
(* Properties of the acled fetch window                                    *)
(***************************************************************************)
\* rows of acled runs that have ended `completed`
CompletedAcled ==
  {i \in DOMAIN sync_log : sync_log[i].adapter = "acled" /\ sync_log[i].status = "completed"}

\* the latest completed_at among them
LatestCompletion ==
  CHOOSE t \in {sync_log[i].completed_at : i \in CompletedAcled} :
    \A i \in CompletedAcled : sync_log[i].completed_at <= t

\* the lower bounds the window of a run started now may have: the latest
\* completed_at (as it is or cut to its day), or the day two years ago
WindowsAllowed ==
  IF CompletedAcled = {} THEN {<<"date", DateOf(now - TwoYearsSeconds)>>}
  ELSE {<<"datetime", LatestCompletion>>, <<"date", DateOf(LatestCompletion)>>}

\* C16: whenever an acled run starts, the lower bound of its fetch window is
\* the completed_at of the most recent `completed` acled row of sync_log when
\* there is one (`error` rows and rows of other adapters do not count), and
\* the day two years before now when there is none.
C16_IncrementalWatermark ==
  [][\A c \in DOMAIN calls :
       Len(calls'[c].runs) > Len(calls[c].runs) =>
         LET r == calls'[c].runs[Len(calls'[c].runs)]
         IN r.name = "acled" => r.since \subseteq WindowsAllowed]_vars

(***************************************************************************)
(* Properties of sync:start with a name                                    *)
(***************************************************************************)
\* request c is made in this step, for a name that initAdapters does not
\* register
UnknownRequested(c) ==
  /\ calls[c].kind = "none"
  /\ calls'[c].kind \in {"rejected", "syncAdapter"}
  /\ ~Has(initAdapters, calls'[c].name)

\* C18: a sync:start request for a name that is not a registered adapter
\* ends in an error within the step that makes it, and that step writes no
\* sync_log row, emits no progress event, starts no adapter run and leaves
\* the in-progress flag as it was.
C18_UnknownAdapterRejected ==
  [][\A c \in DOMAIN calls :
       UnknownRequested(c) =>
         /\ calls'[c].st = "threw"
         /\ ~calls'[c].accepted
         /\ calls'[c].runs = <<>>
         /\ sync_log' = sync_log
         /\ nextLogId' = nextLogId
         /\ events' = events
         /\ job' = job
         /\ running' = running]_vars

\* C18 witness: a request for an unregistered name was refused while the
\* run of an earlier request was in progress, and nothing was run for it.
C18_Witness ==
  \E c \in DOMAIN calls :
    /\ calls[c].kind = "rejected"
    /\ ~Has(initAdapters, calls[c].name)
    /\ calls[c].st = "threw"
    /\ calls[c].runs = <<>>
    /\ \E d \in 1..(c - 1) : calls[d].st = "pending"

(***************************************************************************)
(* Properties of the settings handlers                                     *)
(***************************************************************************)
\* the latest settings:set request carried a key outside the writable set
UnknownKeySent ==
  /\ lastSet.made
  /\ lastSet.shape = "object"
  /\ DOMAIN lastSet.payload \ WRITABLE_SETTINGS_KEYS /= {}

\* every entry of the latest request is in the settings
AppliedInFull ==
  \A k \in DOMAIN lastSet.payload : getSettings(settings)[k] = lastSet.payload[k]

\* C19: a settings:set request with a key outside the writable set has
\* either succeeded with every one of its entries written, or failed with
\* the settings as they were before it.
C19_UnknownKeysAllOrNothing ==
  UnknownKeySent =>
    \/ lastSet.ok /\ AppliedInFull
    \/ ~lastSet.ok /\ settings = lastSet.before

\* C20: whenever the periodic timer fires, the period it was armed with is
\* the syncIntervalMinutes the settings hold at that moment.
C20_TimerFollowsInterval ==
  [][\A c \in DOMAIN calls :
       (calls[c].kind = "none" /\ calls'[c].via = "timer") =>
         intervalMs = start(getSettings(settings)["syncIntervalMinutes"])]_vars

(***************************************************************************)
(* Properties of the linking key of conflict events                        *)
(***************************************************************************)
\* the iso3 of a conflict event is missing or empty
NoIso3(r) == r.iso3 = NULL \/ r.iso3 = ""

\* C21: after upsertConflicts, every record of the batch with a non-empty
\* iso3 that no later record of the batch replaces is in conflict_events,
\* whether or not countries has a row for that iso3, and the call has put no
\* row with a missing or empty iso3 into the table.
C21_ConflictLinkingKey ==
  (lastOp.n >= 1 /\ lastOp.tbl = "conflict_events") =>
    /\ \A i \in DOMAIN lastOp.batch :
         (/\ ~NoIso3(lastOp.batch[i])
          /\ \A j \in DOMAIN lastOp.batch :
               (j > i /\ lastOp.batch[j].id = lastOp.batch[i].id) => NoIso3(lastOp.batch[j]))
         => \E x \in Range(conflict_events) : x.id = lastOp.batch[i].id /\ ~NoIso3(x)
    /\ \A x \in Range(conflict_events) : NoIso3(x) => x \in Range(lastOp.before)

(***************************************************************************)
(* Properties of requests made while syncAll is in progress                *)
(***************************************************************************)
\* request c is made in this step while the in-progress flag is set
RequestedWhileRunning(c) ==
  /\ running
  /\ calls[c].kind = "none"
  /\ calls'[c].kind /= "none"

\* C22: a syncAll() or syncAdapter(name) request made while a syncAll() run
\* is in progress ends within the step that makes it, without a run: the
\* sync log, the record tables, the settings, the adapter registry and the
\* in-progress flag stay as they were and no progress event is emitted; and
\* a request that was refused is never taken up later.
C22_RejectedCallsNoEffect ==
  [][/\ \A c \in DOMAIN calls :
          RequestedWhileRunning(c) =>
            /\ calls'[c].st \in {"returned", "threw"}
            /\ ~calls'[c].accepted
            /\ calls'[c].runs = <<>>
            /\ sync_log' = sync_log
            /\ nextLogId' = nextLogId
            /\ events' = events
            /\ adapters' = adapters
            /\ running' = running
            /\ storeVars' = storeVars
            /\ settings' = settings
            /\ job' = job
     /\ \A c \in DOMAIN calls :
          (calls[c].kind /= "none" /\ ~calls[c].accepted) => calls'[c] = calls[c]]_vars

\* C22 witness: while a syncAll() run waits for an adapter, a second
\* syncAll() and a syncAdapter(name) for a registered name were refused.
C22_Witness ==
  \E d \in DOMAIN calls :
    /\ calls[d].kind = "syncAll"
    /\ calls[d].st = "pending"
    /\ \E c \in DOMAIN calls :
         /\ c > d
         /\ calls[c].kind \in {"syncAll", "syncAdapter"}
         /\ calls[c].st = "returned"
         /\ ~calls[c].accepted
         /\ calls[c].runs = <<>>

(***************************************************************************)
(* Properties of the order of log writes and progress events               *)
(***************************************************************************)
\* the `syncing` event of a run, and the terminal event that goes with a
\* terminal log row
SyncingEvent(row) ==
  [adapter |-> row.adapter, status |-> "syncing", recordCount |-> 0,
   errorMessage |-> NULL]

TerminalEvent(row) ==
  IF row.status = "completed"
  THEN [adapter |-> row.adapter, status |-> "idle",
        recordCount |-> row.records_upserted, errorMessage |-> NULL]
  ELSE [adapter |-> row.adapter, status |-> "error", recordCount |-> 0,
        errorMessage |-> row.error_message]

\* the events that go with the change of the log from old to new, rows
\* taken in id order from row i on: `syncing` for a row that was added, and
\* after it the terminal event for a row that became terminal
RECURSIVE EventsOfChange(_, _, _)
EventsOfChange(old, new, i) ==
  IF i > Len(new) THEN <<>>
  ELSE LET added == i > Len(old)
           ended == /\ Terminal(new[i].status)
                    /\ (added \/ ~Terminal(old[i].status))
       IN (IF added THEN <<SyncingEvent(new[i])>> ELSE <<>>)
          \o (IF ended THEN <<TerminalEvent(new[i])>> ELSE <<>>)
          \o EventsOfChange(old, new, i + 1)

DelaysDouble ==
  \A k \in DOMAIN retrier.delays :
    retrier.delays[k] = retrier.baseDelayMs * 2^(k - 1)

\* C25: withRetry invokes fn at most maxRetries + 1 times; it has waited
\* baseDelayMs * 2^k after the k-th failed attempt and before the retry that
\* follows; once an invocation has resolved it returns that value and fn is
\* not invoked again; after maxRetries + 1 failures it throws the error of
\* the last attempt, with no wait after that attempt.
C25_BoundedRetry ==
  /\ retrier.calls <= retrier.maxRetries + 1
  /\ DelaysDouble
  /\ retrier.phase = "calling" =>
       /\ Len(retrier.errs) = retrier.calls - 1
       /\ Len(retrier.delays) = retrier.calls - 1
  /\ retrier.phase = "waiting" =>
       /\ Len(retrier.errs) = retrier.calls
       /\ Len(retrier.delays) = retrier.calls
       /\ retrier.calls <= retrier.maxRetries
  /\ retrier.phase = "returned" =>
       /\ retrier.value \in FnValues
       /\ Len(retrier.errs) = retrier.calls - 1
       /\ Len(retrier.delays) = retrier.calls - 1
  /\ retrier.phase = "threw" =>
       /\ retrier.calls = retrier.maxRetries + 1
       /\ Len(retrier.errs) = retrier.maxRetries + 1
       /\ retrier.err = retrier.errs[retrier.maxRetries + 1]
       /\ Len(retrier.delays) = retrier.maxRetries

\* C25 witness: with the default arguments fn has failed four times, with
\* different errors, and withRetry has thrown the last one after waits of
\* 2 s, 4 s and 8 s.
C25_Witness ==
  /\ retrier.phase = "threw"
  /\ retrier.maxRetries = maxRetries
  /\ retrier.calls = 4
  /\ retrier.delays = <<2000, 4000, 8000>>
  /\ retrier.errs[3] /= retrier.errs[4]
  /\ retrier.err = retrier.errs[4]

(***************************************************************************)
(* Properties of fetchAll                                                  *)
(***************************************************************************)
\* the cursor page n is to be asked with: the initial parameters for the
\* first page; after that the cursor of the page before with the entries of
\* that page's nextParams written over it
CursorThreaded(n) ==
  IF n = 1 THEN loop.requested[1] = {loop.initial}
  ELSE \E prev \in loop.requested[n - 1] : \E cur \in loop.requested[n] :
         LET np == loop.pages[n - 1].nextParams IN
         /\ loop.requested[n - 1] = {prev}
         /\ loop.requested[n] = {cur}
         /\ DOMAIN cur = DOMAIN prev \cup DOMAIN np
         /\ \A k \in DOMAIN cur : cur[k] = IF k \in DOMAIN np THEN np[k] ELSE prev[k]

\* the normalized records of pages n.. in page order
RECURSIVE RecordsFrom(_)
RecordsFrom(n) ==
  IF n > Len(loop.pages) THEN <<>>
  ELSE [i \in DOMAIN loop.pages[n].data |-> <<"normalized", loop.pages[n].data[i]>>]
       \o RecordsFrom(n + 1)

FetchAllSafe ==
  /\ loop.inFlight <= 1
  /\ loop.inFlight = 1 <=> loop.phase = "fetching"
  /\ Len(loop.requested) =
       Len(loop.pages) + (IF loop.phase \in {"fetching", "threw"} THEN 1 ELSE 0)
  /\ \A n \in DOMAIN loop.requested : CursorThreaded(n)
  /\ \A n \in DOMAIN loop.pages :
       loop.pages[n].hasMore <=> (n < Len(loop.pages) \/ loop.phase \in {"fetching", "threw"})
  /\ loop.phase = "returned" =>
       /\ loop.pages /= <<>>
       /\ loop.returned = RecordsFrom(1)

FetchAllDone == loop.phase \in {"returned", "threw"}

\* C24: fetchAll has at most one fetchPage in flight and asks for page n + 1
\* only after it has taken page n; every invocation for a page, retries
\* included, gets the cursor of the page before with that page's nextParams
\* merged over it; every page taken but the last has hasMore = true and
\* nothing is fetched after a page with hasMore = false; the value returned
\* is the normalized records of the pages taken, in page order; and when
\* the source has finitely many pages the call ends.
C24_PaginationLoop == []FetchAllSafe /\ <>FetchAllDone

\* C24 witness: fetchAll has returned the records of two pages, the second
\* asked with a cursor that keeps a parameter of the initial call next to
\* the page number the first page gave.
C24_Witness ==
  /\ loop.phase = "returned"
  /\ Len(loop.pages) = 2
  /\ loop.initial = [page |-> "1", q |-> "x"]
  /\ loop.requested[2] = {[page |-> "2", q |-> "x"]}
  /\ loop.pages[1].data /= <<>>
  /\ loop.pages[2].data /= <<>>
  /\ loop.returned = <<<<"normalized", loop.pages[1].data[1]>>,
                       <<"normalized", loop.pages[2].data[1]>>>>
  /\ loop.pages[1].data /= loop.pages[2].data

(***************************************************************************)
(* Properties of the rate gate                                             *)
(***************************************************************************)
\* C26: any two consecutive requests of an adapter instance are issued at
\* least rateLimitMs apart, and a call of the gate made when rateLimitMs
\* have passed since the request before (or when there is none before) is
\* issued at once, without a wait.
C26_RateGate ==
  /\ \A k \in DOMAIN gate.issuedAt :
       k > 1 => gate.issuedAt[k] - gate.issuedAt[k - 1] >= gate.rateLimitMs
  /\ \A k \in DOMAIN gate.issuedAt :
       (k = 1 \/ gate.calledAt[k] - gate.issuedAt[k - 1] >= gate.rateLimitMs) =>
         /\ ~gate.waited[k]
         /\ gate.issuedAt[k] = gate.calledAt[k]

\* C26 witness: with a gate of 1000 ms, a request asked 200 ms after the one
\* before was held back until the interval had passed, and the next one,
\* asked 1500 ms after it, was issued at once.
C26_Witness ==
  /\ gate.rateLimitMs = 1000
  /\ Len(gate.issuedAt) = 3
  /\ gate.calledAt[2] = gate.issuedAt[1] + 200
  /\ gate.waited[2]
  /\ gate.issuedAt[2] = gate.issuedAt[1] + 1000
  /\ gate.calledAt[3] = gate.issuedAt[2] + 1500
  /\ ~gate.waited[3]
  /\ gate.issuedAt[3] = gate.calledAt[3]

(***************************************************************************)
(* Properties of the status derived from the sync log                      *)
(***************************************************************************)
\* the status values of the SyncStatus type
SyncStatusDomain == {"idle", "syncing", "error"}

\* C27: every SyncStatus getSyncStatus returns has a status among idle,
\* syncing and error; it is built from an entry of its adapter that no
\* other entry of that adapter was started after, `running` giving syncing,
\* `completed` giving idle with records_upserted, `error` giving error with
\* the message; an adapter without an entry is idle with recordCount 0.
C27_DerivedStatus ==
  \A i \in DOMAIN STATUS_ADAPTERS :
    \A s \in getSyncStatus(sync_log, STATUS_ADAPTERS[i]) :
      /\ s.adapter = STATUS_ADAPTERS[i]
      /\ s.status \in SyncStatusDomain
      /\ IF \A r \in Range(sync_log) : r.adapter /= s.adapter
         THEN s.status = "idle" /\ s.recordCount = 0
         ELSE \E r \in Range(sync_log) :
                /\ r.adapter = s.adapter
                /\ r.id = s.entry
                /\ \A q \in Range(sync_log) :
                     q.adapter = s.adapter => q.started_at <= r.started_at
                /\ r.status = "running" => s.status = "syncing"
                /\ r.status = "completed" =>
                     s.status = "idle" /\ s.recordCount = r.records_upserted
                /\ r.status = "error" =>
                     s.status = "error" /\ s.errorMessage = r.error_message

(***************************************************************************)
(* Properties of the in-progress flag after a run                          *)
(***************************************************************************)
\* no call of the scheduler waits for an adapter
NoRunInProgress == \A c \in DOMAIN calls : calls[c].st /= "pending"

\* the in-progress flag is set only while a syncAll() run waits for an adapter
FlagOnlyWhileRunning ==
  running => \E c \in DOMAIN calls : calls[c].kind = "syncAll" /\ calls[c].st = "pending"

\* request c reaches the scheduler in this step, for all adapters or for a
\* registered one, while no run is in progress
RequestedWhileIdle(c) ==
  /\ NoRunInProgress
  /\ calls[c].kind = "none"
  /\ \/ calls'[c].kind = "syncAll"
     \/ calls'[c].kind = "syncAdapter" /\ calls'[c].name \in Range(initAdapters)

\* C28: the in-progress flag is false whenever no run is in progress, also
\* after syncAll() ended with an exception, and a sync requested while no
\* run is in progress is accepted.
C28_NoPermanentLockout ==
  /\ []FlagOnlyWhileRunning
  /\ [][\A c \in DOMAIN calls : RequestedWhileIdle(c) => calls'[c].accepted]_vars

\* C28 witness: a syncAll() run ended with an exception, the flag is false
\* and a request made after it was accepted.
C28_Witness ==
  \E d \in DOMAIN calls :
    /\ calls[d].kind = "syncAll"
    /\ calls[d].accepted
    /\ calls[d].st = "threw"
    /\ ~running
    /\ \E c \in DOMAIN calls :
         /\ c > d
         /\ calls[c].kind \in {"syncAll", "syncAdapter"}
         /\ calls[c].accepted

(***************************************************************************)
(* Properties of sync:start for the registered adapters                    *)
(***************************************************************************)
\* the adapter names the Settings view offers a sync button for
ALL_ADAPTERS ==
  {"acled", "ucdp", "worldbank", "overpass", "cia-factbook", "sipri", "natural-earth"}

\* the renderer asks in this step, as request c, for the sync of an adapter
\* that initAdapters registers and the Settings view offers, while no run is
\* in progress
RegisteredRequestedWhileIdle(c) ==
  /\ NoRunInProgress
  /\ calls[c].kind = "none"
  /\ calls'[c].kind \in {"rejected", "syncAdapter"}
  /\ Has(initAdapters, calls'[c].name)
  /\ calls'[c].name \in ALL_ADAPTERS

\* C30: a sync:start request for a registered adapter made while no run is
\* in progress is not rejected as unknown: it is accepted, and when it has
\* returned it has made exactly one run, of that adapter, whose log entry
\* is `completed` or `error`.
C30_RegisteredAdapterSyncable ==
  /\ [][\A c \in DOMAIN calls :
          RegisteredRequestedWhileIdle(c) =>
            /\ calls'[c].kind = "syncAdapter"
            /\ calls'[c].accepted]_vars
  /\ [](\A c \in DOMAIN calls :
          (calls[c].kind = "syncAdapter" /\ calls[c].accepted /\ calls[c].st = "returned") =>
            /\ Len(calls[c].runs) = 1
            /\ calls[c].runs[1].name = calls[c].name
            /\ \E r \in Range(sync_log) :
                 /\ r.id = calls[c].runs[1].logId
                 /\ r.adapter = calls[c].name
                 /\ r.status \in {"completed", "error"})

(***************************************************************************)
(* Properties of the sync log when it is cleared                           *)
(***************************************************************************)
\* run k of call c ends in this step
RunEnds(c, k) ==
  /\ calls'[c].runs[k].settled
  /\ ~(k \in DOMAIN calls[c].runs /\ calls[c].runs[k].settled)

\* C29: when a run ends, the sync log holds its entry with status
\* `completed` or `error`, also when clearSyncLog() was called while the run
\* was in progress, and the last successful sync of the adapter is known
\* when the run ended `completed`.
C29_OutcomeSurvivesClear ==
  [][\A c \in DOMAIN calls : \A k \in DOMAIN calls'[c].runs :
       RunEnds(c, k) =>
         \E r \in Range(sync_log') :
           /\ r.id = calls'[c].runs[k].logId
           /\ r.adapter = calls'[c].runs[k].name
           /\ r.status \in {"completed", "error"}
           /\ r.status = "completed" =>
                <<>> \notin getLastSuccessfulSync(sync_log', r.adapter)]_vars

================================================================================
